---- MODULE Spec2Model ----
(***************************************************************************)
(* Verification model of ayon-deadline's farm submission code.             *)
(*                                                                         *)
(* Part 1 (SpecTiles): the tile geometry function _format_tiles of         *)
(*   plugins/publish/maya/submit_maya_deadline.py, applied to bounded      *)
(*   inputs with both values of reversed_y.                                *)
(* Part 2 (SpecSplit): AbstractSubmitDeadline.process with the Houdini     *)
(*   get_job_info, i.e. the export -> render chain of a split submission,  *)
(*   against a farm whose answers are chosen nondeterministically.         *)
(* Part 3 (SpecTileRender): MayaSubmitDeadline._tile_render, statement by  *)
(*   statement, for flat and per-AOV expected files.                       *)
(* Part 4 (SpecIndexed): the operations of lib.DeadlineIndexedVar.         *)
(* Part 5 (SpecKeyValue): lib.DeadlineKeyValueVar and its serialize().     *)
(* Part 6 (SpecJobInfo): lib.DeadlineJobInfo.__setattr__ and serialize(),  *)
(*   with the machine-list and additional-job-info steps of the collector  *)
(*   and the job environment steps of the submitter.                       *)
(* Part 7 (SpecChain): the jobs a Nuke, 3dsmax, Houdini or Maya instance   *)
(*   submits and the publish job that follows them.                        *)
(* Part 8 (SpecEnvCache): inject_ayon_environment of GlobalJobPreLoad.py,  *)
(*   the shared environment cache file, for concurrent workers.            *)
(* Part 9 (SpecServerInfo): DeadlineAddon.get_server_info_by_name, the     *)
(*   per-server cache of pools, groups, limit groups and workers, for      *)
(*   calls made one after the other.                                       *)
(*                                                                         *)
(* Python strings are TLA+ strings; a path or prefix that the code splits  *)
(* is given already split into its "/"-separated components.  Python dicts *)
(* are functions from key strings to values.                               *)
(***************************************************************************)
EXTENDS Integers, Sequences, FiniteSets, TLC

VARIABLES
    ft_args,      \* the arguments drawn for _format_tiles
    ft_renderer,  \* instance.data["renderer"] of the instance being tiled
    ft_ret,       \* reversed_y -> <<>> or <<value returned by _format_tiles>>
    sp_pc,        \* position in AbstractSubmitDeadline.process
    sp_in,        \* the instance data drawn for the split submission
    sp_generic,   \* job_info of get_generic_job_info (one mutable object)
    sp_self_job,  \* self.job_info
    sp_job_id,    \* local job_id of process()
    sp_render_job,\* local render_job_info of process()
    sp_data,      \* instance.data entries written by process()/submit()
    sp_posted,    \* farm side: every payload handed to requests_post, in order
    sp_error,     \* the exception that ended process(), or "none"
    tr_pc,        \* position in MayaSubmitDeadline._tile_render
    tr_in,        \* the instance data and payload drawn for _tile_render
    tr_job_info,  \* local job_info of _tile_render
    tr_plugin_info, \* local plugin_info of _tile_render
    tr_files,     \* local files (one per frame tile job)
    tr_assembly_files, \* local assembly_files
    tr_loop,      \* locals of the frame loop at the point it was left
    tr_posted,    \* farm side: every payload _tile_render handed to submit()
    tr_error,     \* the exception that ended _tile_render, or "none"
    iv,           \* a DeadlineIndexedVar: its dict contents
    iv_last,      \* the last operation applied to iv, with the contents before
    kv,           \* a DeadlineKeyValueVar: its items, in dict (insertion) order
    kv_out,       \* <<>> or <<value of kv.serialize()>> for the current items
    ji,           \* a DeadlineJobInfo: field name -> field value
    ji_n,         \* number of operations applied to ji
    ji_last,      \* the last operation applied to ji and what it raised
    ch_pc,        \* position in the chain of submissions of one instance
    ch_in,        \* the instance data drawn for the chain
    ch_job_info,  \* self.job_info of the render submitter
    ch_i,         \* number of loop passes (baking scripts, cameras) done
    ch_data,      \* instance.data entries written by the submitters
    ch_posted,    \* farm side: every job POSTed for the instance, in order
    ch_error,     \* the exception that ended the chain, or "none"
    ec_pc,        \* worker -> position in inject_ayon_environment
    ec_tmp,       \* the in-progress file "<export_path>.tmp"
    ec_export,    \* the cache file export_path
    ec_read,      \* worker -> <<>> or <<what json.load found in export_path>>
    ec_error,     \* worker -> the exception it raised or will raise, or "none"
    ec_posix,     \* os.rename replaces an existing target (POSIX) or raises
    ec_stale_removed, \* some worker removed a stale in-progress file
    ec_all_kwargs, \* the job names its project, folder, task and application
    si_cache,     \* self._server_info_by_name: server name -> entry
    si_first,     \* server name -> what the first call that returned gave
    si_source,    \* server name -> the queries and values its entry is from
    si_fills,     \* server name -> number of times its entry was stored
    si_call,      \* the call in progress: its position and locals
    si_calls,     \* number of calls started so far
    si_last,      \* the last call that ended, and how
    si_write      \* the last store into the cache and the entries it changed

ftVars == <<ft_args, ft_renderer, ft_ret>>
spVars == <<sp_pc, sp_in, sp_generic, sp_self_job, sp_job_id, sp_render_job,
            sp_data, sp_posted, sp_error>>
trVars == <<tr_pc, tr_in, tr_job_info, tr_plugin_info, tr_files,
            tr_assembly_files, tr_loop, tr_posted, tr_error>>
ivVars == <<iv, iv_last>>
kvVars == <<kv, kv_out>>
jiVars == <<ji, ji_n, ji_last>>
chVars == <<ch_pc, ch_in, ch_job_info, ch_i, ch_data, ch_posted, ch_error>>
ecVars == <<ec_pc, ec_tmp, ec_export, ec_read, ec_error, ec_posix,
            ec_stale_removed, ec_all_kwargs>>
siVars == <<si_cache, si_first, si_source, si_fills, si_call, si_calls,
           si_last, si_write>>
vars == <<ftVars, spVars, trVars, ivVars, kvVars, jiVars, chVars, ecVars,
         siVars>>

---------------------------------------------------------------------------
(* Bounds of the model.                                                    *)
MaxTiles == 3
MaxRes == 6

---------------------------------------------------------------------------
(* Python helpers used by _format_tiles.                                   *)

\* dict.__setitem__ / dict.update with one key: d[k] = v
DictSet(d, k, v) == [x \in (DOMAIN d) \cup {k} |-> IF x = k THEN v ELSE d[x]]

EmptyDict == [x \in {} |-> 0]

\* range(1, tiles_y + 1) as a list
range_y(tiles_y) == [i \in 1..tiles_y |-> i]

\* list(reversed(seq))
Reversed(seq) == [i \in 1..Len(seq) |-> seq[Len(seq) + 1 - i]]

reversed_y_range(tiles_y) == Reversed(range_y(tiles_y))

\* "/".join(components)
RECURSIVE JoinSlash(_)
JoinSlash(parts) ==
    IF Len(parts) = 0 THEN ""
    ELSE IF Len(parts) = 1 THEN parts[1]
    ELSE parts[1] \o "/" \o JoinSlash(Tail(parts))

\* prefix.rsplit("/", 1) of a string given as its "/"-separated components:
\* one part when the string holds no "/", else everything before the last
\* "/" and what follows it.
RSplitSlash1(parts) ==
    IF Len(parts) <= 1 THEN <<JoinSlash(parts)>>
    ELSE <<JoinSlash(SubSeq(parts, 1, Len(parts) - 1)), parts[Len(parts)]>>

\* sep.join(pieces) for the one or two pieces rsplit returns
StrJoin(sep, pieces) ==
    IF Len(pieces) = 1 THEN pieces[1] ELSE pieces[1] \o sep \o pieces[2]

\* "_tile_{}x{}_{}x{}_".format(tile_x, tile_y_index, tiles_x, tiles_y)
tile_prefix(tile_x, tile_y_index, tiles_x, tiles_y) ==
    "_tile_" \o ToString(tile_x) \o "x" \o ToString(tile_y_index) \o "_"
             \o ToString(tiles_x) \o "x" \o ToString(tiles_y) \o "_"

\* "{}/{}{}".format(os.path.dirname(filename), tile_prefix,
\*                  os.path.basename(filename))
new_filename(filename, tp) == filename.dirname \o "/" \o tp \o filename.basename

\* "/{}".format(tile_prefix).join(prefix.rsplit("/", 1))
RegionPrefixValue(prefix, tp) == StrJoin("/" \o tp, RSplitSlash1(prefix))

w_space(width, tiles_x) == width \div tiles_x
h_space(height, tiles_y) == height \div tiles_y

\* Faulty variants of the region arithmetic and of the loop bookkeeping.
RegionBottomNoMinusOne(height, tile_y, hs) == height - ((tile_y - 1) * hs)
RegionLeftOffByOne(tile_x, ws) == tile_x * ws
TileYIndexNoMirror(reversed_y, i, tile_y, tiles_y) == tile_y
NextTileSkip(tile) == tile + 2

\* top = height - (tile_y * h_space)
RegionTop(height, tile_y, hs) == height - (tile_y * hs)
\* bottom = height - ((tile_y - 1) * h_space) - 1
RegionBottom(height, tile_y, hs) == height - ((tile_y - 1) * hs) - 1
\* left = (tile_x - 1) * w_space
RegionLeft(tile_x, ws) == (tile_x - 1) * ws
\* right = (tile_x * w_space) - 1
RegionRight(tile_x, ws) == (tile_x * ws) - 1

\* cfg["Tile{}Y".format(tile)] = top
CfgTileY(top, height, hs) == top

\* tile_y_index = tile_y; if reversed_y: tile_y_index = reversed_y_range[i]
\* (i is the 0-based enumerate index, so the list position is i + 1)
TileYIndex(reversed_y, i, tile_y, tiles_y) ==
    IF reversed_y THEN reversed_y_range(tiles_y)[i + 1] ELSE tile_y

\* tile += 1
NextTile(tile) == tile + 1

Key(name, n) == name \o ToString(n)
TileKey(n, field) == "Tile" \o ToString(n) \o field

\* The body of the inner loop for one (tile_x, (i, tile_y)); acc holds the
\* locals tile, out and cfg.
FormatTilesBody(acc, a, reversed_y, tile_x, i) ==
    LET tile_y == range_y(a.tiles_y)[i + 1]
        ws == w_space(a.width, a.tiles_x)
        hs == h_space(a.height, a.tiles_y)
        tile_y_index == TileYIndex(reversed_y, i, tile_y, a.tiles_y)
        tp == tile_prefix(tile_x, tile_y_index, a.tiles_x, a.tiles_y)
        fname == new_filename(a.filename, tp)
        top == RegionTop(a.height, tile_y, hs)
        bottom == RegionBottom(a.height, tile_y, hs)
        left == RegionLeft(tile_x, ws)
        right == RegionRight(tile_x, ws)
        tile == acc.tile
        p1 == DictSet(acc.PluginInfo, Key("RegionPrefix", tile),
                      RegionPrefixValue(a.prefix, tp))
        p2 == DictSet(p1, Key("RegionTop", tile), top)
        p3 == DictSet(p2, Key("RegionBottom", tile), bottom)
        p4 == DictSet(p3, Key("RegionLeft", tile), left)
        p5 == DictSet(p4, Key("RegionRight", tile), right)
        c1 == DictSet(acc.cfg, TileKey(tile, "FileName"), fname)
        c2 == DictSet(c1, TileKey(tile, "X"), left)
        c3 == DictSet(c2, TileKey(tile, "Y"), CfgTileY(top, a.height, hs))
        c4 == DictSet(c3, TileKey(tile, "Width"), ws)
        c5 == DictSet(c4, TileKey(tile, "Height"), hs)
    IN  [tile |-> NextTile(tile),
         JobInfo |-> DictSet(acc.JobInfo, Key("OutputFilename", a.index), fname),
         PluginInfo |-> p5,
         cfg |-> c5]

\* for i, tile_y in enumerate(range_y): ...
RECURSIVE FormatTilesInner(_, _, _, _, _)
FormatTilesInner(acc, a, reversed_y, tile_x, i) ==
    IF i >= Len(range_y(a.tiles_y)) THEN acc
    ELSE FormatTilesInner(FormatTilesBody(acc, a, reversed_y, tile_x, i),
                          a, reversed_y, tile_x, i + 1)

\* for tile_x in range(1, tiles_x + 1): ...
RECURSIVE FormatTilesOuter(_, _, _, _)
FormatTilesOuter(acc, a, reversed_y, tile_x) ==
    IF tile_x > a.tiles_x THEN acc
    ELSE FormatTilesOuter(FormatTilesInner(acc, a, reversed_y, tile_x, 0),
                          a, reversed_y, tile_x + 1)

\* _format_tiles(filename, index, tiles_x, tiles_y, width, height, prefix,
\*               reversed_y): returns (out, cfg)
_format_tiles(a, reversed_y) ==
    LET start == [tile |-> 0,
                  JobInfo |-> EmptyDict,
                  PluginInfo |-> EmptyDict,
                  cfg |-> DictSet(EmptyDict, "TilesCropped", "False")]
        end == FormatTilesOuter(start, a, reversed_y, 1)
    IN  [out |-> [JobInfo |-> end.JobInfo, PluginInfo |-> end.PluginInfo],
         cfg |-> end.cfg]

\* tiles_count = job_info.TileJobTilesInX * job_info.TileJobTilesInY
tiles_count(tiles_x, tiles_y) == tiles_x * tiles_y

\* reversed_y = False; if plugin_info["Renderer"] == "arnold": reversed_y = True
ManifestReversedY(renderer) == renderer = "arnold"

---------------------------------------------------------------------------
(* SpecTiles: _format_tiles applied to drawn arguments.                    *)

Filenames == {[dirname |-> "/out", basename |-> "beauty.1001.exr"]}
Prefixes == {<<"layer">>, <<"scene", "layer">>}
Renderers == {"arnold", "vray"}

FtArgs ==
    [filename : Filenames, index : {0}, tiles_x : 1..MaxTiles,
     tiles_y : 1..MaxTiles, width : 0..MaxRes, height : 0..MaxRes,
     prefix : Prefixes]

FtInit ==
    /\ ft_args \in FtArgs
    /\ ft_renderer \in Renderers
    /\ ft_ret = [r \in BOOLEAN |-> <<>>]

\* One call _format_tiles(..., reversed_y=rev) with the drawn arguments.
FormatTilesCall ==
    \E rev \in BOOLEAN :
        /\ ft_ret[rev] = <<>>
        /\ ft_ret' = [ft_ret EXCEPT ![rev] = <<_format_tiles(ft_args, rev)>>]
        /\ UNCHANGED <<ft_args, ft_renderer>>

FtIdle ==
    /\ ft_args = [filename |-> [dirname |-> "", basename |-> ""], index |-> 0,
                  tiles_x |-> 1, tiles_y |-> 1, width |-> 0, height |-> 0,
                  prefix |-> <<"">>]
    /\ ft_renderer = ""
    /\ ft_ret = [r \in BOOLEAN |-> <<>>]

---------------------------------------------------------------------------
(* AbstractSubmitDeadline.submit and the farm.                             *)

\* ",".join(value) of a list of strings
RECURSIVE JoinComma(_)
JoinComma(list) ==
    IF Len(list) = 0 THEN ""
    ELSE IF Len(list) = 1 THEN list[1]
    ELSE list[1] \o "," \o JoinComma(Tail(list))

\* What the farm (or the transport) answers to one POST /api/jobs:
\*   "exception": requests.post raises (connection refused, timeout)
\*   "not_ok":    a response whose .ok is false
\*   "bad_json":  a 2xx response whose body is not JSON
\*   "no_id":     a 2xx JSON object without the key "_id"
\*   "ok":        a 2xx JSON object holding "_id"
FarmAnswers == {"exception", "not_ok", "bad_json", "no_id", "ok"}

\* The id the farm gives its n-th job.
FarmJobId(n) == "job" \o ToString(n)

FarmAccepted(posted) == {k \in 1..Len(posted) : posted[k].answer = "ok"}

\* The JSON body of an answer, as far as submit() reads it.
FarmResult(answer, posted) ==
    IF answer = "ok"
    THEN [has_id |-> TRUE, _id |-> FarmJobId(Cardinality(FarmAccepted(posted)) + 1)]
    ELSE [has_id |-> FALSE, _id |-> ""]

\* The exception submit() ends with, "none" if it returns result["_id"].
SubmitRaises(answer) ==
    CASE answer = "exception" -> "RequestException"
      [] answer = "not_ok"    -> "KnownPublishError(response.text)"
      [] answer = "bad_json"  -> "KnownPublishError(Broken response from DL)"
      [] answer = "no_id"     -> "KeyError(_id)"
      [] OTHER                -> "none"

\* submit() stores the parsed body before it reads "_id" from it.
SubmitStoresResult(answer) == answer \in {"no_id", "ok"}

---------------------------------------------------------------------------
(* DeadlineJobInfo, restricted to the fields the split submission sets.    *)
(* An unset (None) scalar is <<>>, a set one <<value>>.                    *)

\* DeadlineJobInfo._fill_serialize_value over the modelled fields
SerializeJobInfo(job) ==
    LET d1 == DictSet(EmptyDict, "Plugin", job.Plugin)
        d2 == DictSet(d1, "Name", job.Name)
        d3 == IF job.Priority = <<>> THEN d2
              ELSE DictSet(d2, "Priority", job.Priority[1])
        d4 == DictSet(d3, "JobDependencies", JoinComma(job.JobDependencies))
        d5 == IF job.IsFrameDependent = <<>> THEN d4
              ELSE DictSet(d4, "IsFrameDependent", job.IsFrameDependent[1])
    IN  d5

\* family_to_render_plugin of HoudiniSubmitDeadline.get_job_info
RenderPluginOf(family) ==
    CASE family = "arnold_rop"   -> "Arnold"
      [] family = "karma_rop"    -> "Karma"
      [] family = "mantra_rop"   -> "Mantra"
      [] family = "redshift_rop" -> "Redshift"
      [] family = "usdrender"    -> "HuskStandalone"
      [] family = "vray_rop"     -> "Vray"
      [] OTHER                   -> "Render"

\* Faulty variant: the dependency ids are dropped.
HoudiniDependenciesDropped(job, dependency_job_ids) == job.JobDependencies

\* if dependency_job_ids: job_info.JobDependencies = dependency_job_ids
HoudiniDependencies(job, dependency_job_ids) ==
    IF Len(dependency_job_ids) > 0 THEN dependency_job_ids
    ELSE job.JobDependencies

\* HoudiniSubmitDeadline.get_job_info(dependency_job_ids, job_info): the
\* job_info object after the call (it is changed in place and returned).
HoudiniGetJobInfo(job, dependency_job_ids, inst) ==
    LET split_render_job == inst.splitRender
        is_export_job == Len(dependency_job_ids) = 0
        is_render == split_render_job /\ ~is_export_job
        job_type == IF is_render THEN "[RENDER]"
                    ELSE IF split_render_job THEN "[EXPORT .IFD]"
                    ELSE "[RENDER]"
    IN  [job EXCEPT
            !.Plugin = IF is_render THEN RenderPluginOf(inst.family)
                       ELSE "Houdini",
            !.Name = "scene.hip - " \o inst.name \o " " \o job_type,
            !.IsFrameDependent =
                IF is_render THEN <<inst.splitRenderFrameDependent>> ELSE @,
            !.Priority =
                IF split_render_job /\ is_export_job
                THEN <<inst.export_priority>> ELSE @,
            !.JobDependencies = HoudiniDependencies(job, dependency_job_ids)]

---------------------------------------------------------------------------
(* SpecSplit: AbstractSubmitDeadline.process for one Houdini instance.     *)

SplitFamilies == {"arnold_rop", "karma_rop", "other_rop"}
CollectedDependencies == {<<>>, <<"dep0">>, <<"dep0", "dep0">>}

\* Priorities the publisher attributes can hold: the collected job Priority
\* and the Houdini "Export Priority" (a NumberDef without minimum/maximum).
SplitPriorities == {-1, 50, 101}
SplitExportPriorities == {40, 101}

SplitInstances ==
    [splitRender : BOOLEAN, splitRenderFrameDependent : BOOLEAN,
     family : SplitFamilies, name : {"renderMain"},
     priority : SplitPriorities, export_priority : SplitExportPriorities,
     validate_active : BOOLEAN,
     JobDependencies : CollectedDependencies]

\* instance.data["deadline"]["job_info"] as CollectJobInfo leaves it
CollectedJobInfo(inst) ==
    [Plugin |-> "Untitled", Name |-> "Untitled", Priority |-> <<inst.priority>>,
     IsFrameDependent |-> <<>>, JobDependencies |-> inst.JobDependencies]

NoData == [deadlineSubmissionJob |-> <<>>, job_info |-> <<>>]

SpInit ==
    /\ sp_pc = "validate"
    /\ sp_in \in SplitInstances
    /\ sp_generic = CollectedJobInfo(sp_in)
    /\ sp_self_job = <<>>
    /\ sp_job_id = <<>>
    /\ sp_render_job = <<>>
    /\ sp_data = [NoData EXCEPT !.job_info = <<CollectedJobInfo(sp_in)>>]
    /\ sp_posted = <<>>
    /\ sp_error = "none"

\* if priority < 0 or priority > 100: raise PublishValidationError
PriorityInvalid(priority) == priority < 0 \/ priority > 100

\* ValidateDeadlineJobInfo.process (ValidatorOrder, optional): checks the
\* Priority of instance.data["deadline"]["job_info"] unless the plugin was
\* switched off for the instance.  The submit plugins (IntegratorOrder) run
\* only when no validator raised.
ValidateJobInfo ==
    /\ sp_pc = "validate"
    /\ IF sp_in.validate_active /\ PriorityInvalid(sp_generic.Priority[1])
       THEN /\ sp_pc' = "invalid"
            /\ sp_error' = "PublishValidationError"
       ELSE /\ sp_pc' = "start"
            /\ sp_error' = sp_error
    /\ UNCHANGED <<sp_in, sp_generic, sp_self_job, sp_job_id, sp_render_job,
                   sp_data, sp_posted>>

\* get_generic_job_info: job_info.Name = "%s - %s" % (batch_name, instance.name)
\* on the object held in instance.data["deadline"]["job_info"].
GenericJobInfo(job, inst) == [job EXCEPT !.Name = "scene.hip - " \o inst.name]

\* process(), up to the first network call:
\*   job_info = self.get_generic_job_info(instance)
\*   self.job_info = self.get_job_info(job_info=deepcopy(job_info))
ProcessPrepare ==
    /\ sp_pc = "start"
    /\ sp_generic' = GenericJobInfo(sp_generic, sp_in)
    /\ sp_data' = [sp_data EXCEPT !.job_info = <<sp_generic'>>]
    /\ sp_self_job' = <<HoudiniGetJobInfo(sp_generic', <<>>, sp_in)>>
    /\ sp_pc' = "process_submission"
    /\ UNCHANGED <<sp_in, sp_job_id, sp_render_job, sp_posted, sp_error>>

\* job_id = self.process_submission(): assemble_payload() and submit() of
\* self.job_info, then instance.data["deadline"]["job_info"] is replaced.
ProcessSubmission ==
    /\ sp_pc = "process_submission"
    /\ \E answer \in FarmAnswers :
        LET payload == SerializeJobInfo(sp_self_job[1])
            result == FarmResult(answer, sp_posted)
            raised == SubmitRaises(answer)
        IN  /\ sp_posted' = Append(sp_posted,
                    [JobInfo |-> payload, answer |-> answer, id |-> result._id,
                     deps |-> sp_self_job[1].JobDependencies])
            /\ sp_error' = raised
            /\ sp_data' =
                 [sp_data EXCEPT
                    !.deadlineSubmissionJob =
                        IF SubmitStoresResult(answer) THEN <<result>> ELSE @,
                    !.job_info =
                        IF raised = "none" THEN sp_self_job ELSE @]
            /\ sp_job_id' = IF raised = "none" THEN <<result._id>> ELSE <<>>
            /\ sp_pc' = IF raised # "none" THEN "raised"
                        ELSE IF sp_in.splitRender THEN "split_render"
                        ELSE "done"
    /\ UNCHANGED <<sp_in, sp_generic, sp_self_job, sp_render_job>>

\* if instance.data.get("splitRender"): the render job is built from the
\* generic job_info with dependency_job_ids=[job_id] and submitted.
ProcessSplitRender ==
    /\ sp_pc = "split_render"
    /\ \E answer \in FarmAnswers :
        LET render_job_info == HoudiniGetJobInfo(sp_generic, sp_job_id, sp_in)
            payload == SerializeJobInfo(render_job_info)
            result == FarmResult(answer, sp_posted)
            raised == SubmitRaises(answer)
        IN  /\ sp_generic' = render_job_info
            /\ sp_render_job' = <<render_job_info>>
            /\ sp_posted' = Append(sp_posted,
                    [JobInfo |-> payload, answer |-> answer, id |-> result._id,
                     deps |-> render_job_info.JobDependencies])
            /\ sp_error' = raised
            /\ sp_data' =
                 [sp_data EXCEPT
                    !.deadlineSubmissionJob =
                        IF SubmitStoresResult(answer) THEN <<result>> ELSE @,
                    !.job_info =
                        IF raised = "none" THEN <<render_job_info>> ELSE @]
            /\ sp_pc' = IF raised # "none" THEN "raised" ELSE "done"
    /\ UNCHANGED <<sp_in, sp_self_job, sp_job_id>>

SpIdle ==
    /\ sp_pc = "idle"
    /\ sp_in = <<>>
    /\ sp_generic = <<>>
    /\ sp_self_job = <<>>
    /\ sp_job_id = <<>>
    /\ sp_render_job = <<>>
    /\ sp_data = <<>>
    /\ sp_posted = <<>>
    /\ sp_error = "none"

---------------------------------------------------------------------------
(* SpecTileRender: MayaSubmitDeadline._tile_render(payload).               *)

MaxFrames == 2

TrFrameName(n) == ToString(1000 + n)

\* An expected output file "<dirname>/<aov>.<frame>.exr"; R_FRAME_NUMBER
\* (".+\.(?P<frame>[0-9]+)\..+") finds its frame field.
TrFile(aov, n) ==
    [dirname |-> "/out", basename |-> aov \o "." \o TrFrameName(n) \o ".exr",
     frame |-> TrFrameName(n)]

TrSequence(aov, count) == [n \in 1..count |-> TrFile(aov, n)]

\* instance.data["expectedFiles"][0]: a list of files, or a dict from AOV
\* name to its files (given as the list of its items, in insertion order).
TrExpectedFiles ==
    {[kind |-> "list", files |-> TrSequence("beauty", c), items |-> <<>>] :
        c \in 1..MaxFrames}
    \cup
    {[kind |-> "dict", files |-> <<>>,
      items |-> [k \in 1..Len(names) |->
                    [key |-> names[k], value |-> TrSequence(names[k], c)]]] :
        c \in 1..MaxFrames,
        names \in {<<"beauty">>, <<"beauty", "Z">>, <<"Z", "N">>}}

TrInstances ==
    [expectedFiles : TrExpectedFiles, tilesX : 1..2, tilesY : 1..2,
     resolutionWidth : {4}, resolutionHeight : {4},
     renderer : {"arnold", "vray"}, prefix : {<<"scene", "layer">>}]

\* The payload (job_info, plugin_info) process_submission passes on.  The
\* tile fields hold their dataclass defaults; Name is set by the collector,
\* ForceReloadPlugin is None (<<>>).
TrPayloadJobInfo ==
    [Name |-> "scene.ma - renderMain", TileJob |-> FALSE,
     TileJobTilesInX |-> 0, TileJobTilesInY |-> 0,
     TileJobFrame |-> 0, ForceReloadPlugin |-> <<>>]

TrPayloadPluginInfo(inst) ==
    DictSet(DictSet(EmptyDict, "Renderer", inst.renderer),
            "OutputFilePrefix", JoinSlash(inst.prefix))

\* exp[0].get(key) of an items list; <<>> stands for None
RECURSIVE TrDictGet(_, _)
TrDictGet(items, key) ==
    IF Len(items) = 0 THEN <<>>
    ELSE IF items[1].key = key THEN items[1].value
    ELSE TrDictGet(Tail(items), key)

\* itertools.chain.from_iterable([f for _, f in exp[0].items()])
RECURSIVE TrChainValues(_)
TrChainValues(items) ==
    IF Len(items) = 0 THEN <<>>
    ELSE items[1].value \o TrChainValues(Tail(items))

\* files: exp[0].get("beauty") or the first AOV's files; exp itself for a list
TrFilesOf(exp) ==
    IF exp.kind = "dict"
    THEN IF Len(TrDictGet(exp.items, "beauty")) > 0
         THEN TrDictGet(exp.items, "beauty")
         ELSE exp.items[1].value
    ELSE exp.files

TrAssemblyFilesOf(exp) ==
    IF exp.kind = "dict" THEN TrChainValues(exp.items) ELSE exp.files

NoLoop == [file_index |-> 0, frame |-> "", new_job_info |-> <<>>,
           tiles_data |-> <<>>]

TrInit ==
    /\ tr_pc = "start"
    /\ tr_in \in TrInstances
    /\ tr_job_info = <<>>
    /\ tr_plugin_info = <<>>
    /\ tr_files = <<>>
    /\ tr_assembly_files = <<>>
    /\ tr_loop = NoLoop
    /\ tr_posted = <<>>
    /\ tr_error = "none"

\* _tile_render up to the frame loop: the copies of the payload are marked
\* as a tile job, files and assembly_files are read from expectedFiles.
TileRenderPrepare ==
    /\ tr_pc = "start"
    /\ tr_job_info' =
         <<[TrPayloadJobInfo EXCEPT
              !.ForceReloadPlugin =
                  IF tr_in.renderer = "vray" THEN <<TRUE>> ELSE @,
              !.TileJob = TRUE,
              !.TileJobTilesInX = tr_in.tilesX,
              !.TileJobTilesInY = tr_in.tilesY]>>
    /\ tr_plugin_info' =
         <<DictSet(DictSet(DictSet(TrPayloadPluginInfo(tr_in),
              "ImageHeight", tr_in.resolutionHeight),
              "ImageWidth", tr_in.resolutionWidth),
              "RegionRendering", TRUE)>>
    /\ tr_files' = TrFilesOf(tr_in.expectedFiles)
    /\ tr_assembly_files' = TrAssemblyFilesOf(tr_in.expectedFiles)
    /\ tr_loop' = [NoLoop EXCEPT !.file_index = 1]
    /\ tr_pc' = "frame_loop"
    /\ UNCHANGED <<tr_in, tr_posted, tr_error>>

\* new_job_info.update(tiles_data["JobInfo"]): new_job_info is a deep copy
\* of a PublishDeadlineJobInfo, a dataclass that defines no update().
JobInfoUpdateRaises == "AttributeError"

\* The first pass of "for file in files": the per-frame copy of job_info is
\* named, _format_tiles is called, and the update of the copy raises.
TileRenderFrame ==
    /\ tr_pc = "frame_loop"
    /\ tr_loop.file_index <= Len(tr_files)
    /\ LET file == tr_files[tr_loop.file_index]
           count == tiles_count(tr_in.tilesX, tr_in.tilesY)
           new_job_info ==
               [tr_job_info[1] EXCEPT
                  !.Name = @ \o " (Frame " \o file.frame \o " - "
                             \o ToString(count) \o " tiles)",
                  !.TileJobFrame = file.frame]
           tiles_data ==
               _format_tiles(
                   [filename |-> [dirname |-> file.dirname,
                                  basename |-> file.basename],
                    index |-> 0, tiles_x |-> tr_in.tilesX,
                    tiles_y |-> tr_in.tilesY,
                    width |-> tr_in.resolutionWidth,
                    height |-> tr_in.resolutionHeight,
                    prefix |-> tr_in.prefix], FALSE).out
       IN  /\ tr_loop' = [tr_loop EXCEPT !.frame = file.frame,
                                         !.new_job_info = <<new_job_info>>,
                                         !.tiles_data = <<tiles_data>>]
           /\ tr_error' = JobInfoUpdateRaises
           /\ tr_pc' = "raised"
    /\ UNCHANGED <<tr_in, tr_job_info, tr_plugin_info, tr_files,
                   tr_assembly_files, tr_posted>>

TrIdle ==
    /\ tr_pc = "idle"
    /\ tr_in = <<>>
    /\ tr_job_info = <<>>
    /\ tr_plugin_info = <<>>
    /\ tr_files = <<>>
    /\ tr_assembly_files = <<>>
    /\ tr_loop = <<>>
    /\ tr_posted = <<>>
    /\ tr_error = "none"

---------------------------------------------------------------------------
(* SpecIndexed: lib.DeadlineIndexedVar, a dict with integer keys.          *)
(* A key is [int |-> isinstance(key, int), v |-> its number]; a key that   *)
(* is not an int (the string "1", say) has int = FALSE.                    *)

MaxIndex == 2

IvKey(n) == [int |-> TRUE, v |-> n]
IvKeys == {IvKey(n) : n \in (-1)..MaxIndex} \cup {[int |-> FALSE, v |-> 1]}
IvValues == {"a", "b"}

\* The state of a call in progress: the dict and the exception raised so far.
IvOk(d) == [d |-> d, raised |-> "none"]

\* Faulty variant: the number of entries is taken for the next free index.
NextAvailableIndexCount(d) == Cardinality(DOMAIN d)

\* i = 0; while i in self.keys(): i += 1; return i
RECURSIVE IvNextFrom(_, _)
IvNextFrom(d, i) == IF IvKey(i) \in DOMAIN d THEN IvNextFrom(d, i + 1) ELSE i

next_available_index(d) == IvNextFrom(d, 0)

\* DeadlineIndexedVar.__setitem__(key, value)
IvSetItem(st, key, value) ==
    IF st.raised # "none" THEN st
    ELSE IF ~key.int THEN [st EXCEPT !.raised = "TypeError"]
    ELSE IF key.v < 0 THEN [st EXCEPT !.raised = "ValueError"]
    ELSE [st EXCEPT !.d = DictSet(st.d, key, value)]

\* DeadlineIndexedVar.append(value)
IvAppend(st, value) ==
    IF st.raised # "none" THEN st
    ELSE IvSetItem(st, IvKey(next_available_index(st.d)), value)

\* DeadlineIndexedVar.add(value)
IvAdd(st, value) ==
    IF value \in {st.d[k] : k \in DOMAIN st.d} THEN st ELSE IvAppend(st, value)

\* DeadlineIndexedVar.extend(values)
RECURSIVE IvExtend(_, _)
IvExtend(st, values) ==
    IF Len(values) = 0 THEN st
    ELSE IvExtend(IvAppend(st, values[1]), Tail(values))

\* DeadlineIndexedVar.update(data), data given as the list of its items
RECURSIVE IvUpdate(_, _)
IvUpdate(st, items) ==
    IF Len(items) = 0 THEN st
    ELSE IvUpdate(IvSetItem(st, items[1].key, items[1].value), Tail(items))

IvValueLists == {<<>>} \cup {<<a>> : a \in IvValues}
                \cup {<<a, b>> : a, b \in IvValues}

IvItems == [key : IvKeys, value : IvValues]
IvItemLists == {<<>>} \cup {<<a>> : a \in IvItems}
               \cup {<<a, b>> : a, b \in IvItems}

\* The model keeps the collection within MaxIndex + 1 entries.
IvHasRoom(d, n) == Cardinality(DOMAIN d) + n <= MaxIndex + 1

IvInit ==
    /\ iv = EmptyDict
    /\ iv_last = [op |-> "init", before |-> EmptyDict, value |-> "",
                  raised |-> "none"]

IvStep(op, value, st) ==
    /\ iv' = st.d
    /\ iv_last' = [op |-> op, before |-> iv, value |-> value,
                   raised |-> st.raised]

\* var[key] = value
IvOpSetItem ==
    \E key \in IvKeys, value \in IvValues :
        IvStep("setitem", value, IvSetItem(IvOk(iv), key, value))

\* var.append(value)
IvOpAppend ==
    \E value \in IvValues :
        /\ IvHasRoom(iv, 1)
        /\ IvStep("append", value, IvAppend(IvOk(iv), value))

\* var += value
IvOpIAdd ==
    \E value \in IvValues :
        /\ IvHasRoom(iv, 1)
        /\ IvStep("iadd", value, IvAppend(IvOk(iv), value))

\* var.add(value)
IvOpAdd ==
    \E value \in IvValues :
        /\ IvHasRoom(iv, 1)
        /\ IvStep("add", value, IvAdd(IvOk(iv), value))

\* var.extend(values)
IvOpExtend ==
    \E values \in IvValueLists :
        /\ IvHasRoom(iv, Len(values))
        /\ IvStep("extend", "", IvExtend(IvOk(iv), values))

\* var.update(data)
IvOpUpdate ==
    \E items \in IvItemLists :
        /\ \A i, j \in 1..Len(items) : items[i].key = items[j].key => i = j
        /\ IvStep("update", "", IvUpdate(IvOk(iv), items))

IvIdle ==
    /\ iv = <<>>
    /\ iv_last = <<>>

---------------------------------------------------------------------------
(* SpecKeyValue: lib.DeadlineKeyValueVar, a dict serialized as             *)
(* "<name><idx>" -> "<key>=<value>".  A key is the sequence of the code    *)
(* points of its characters, so that Python's string comparison can be     *)
(* computed; the dict is the list of its items in insertion order.         *)

MaxEntries == 3

\* chr(code) for the characters the keys use
KvChr(code) ==
    CASE code = 65 -> "A"
      [] code = 66 -> "B"
      [] code = 68 -> "D"
      [] code = 69 -> "E"
      [] code = 72 -> "H"
      [] code = 73 -> "I"
      [] code = 74 -> "J"
      [] code = 76 -> "L"
      [] code = 77 -> "M"
      [] code = 78 -> "N"
      [] code = 79 -> "O"
      [] code = 80 -> "P"
      [] code = 82 -> "R"
      [] code = 83 -> "S"
      [] code = 84 -> "T"
      [] code = 85 -> "U"
      [] code = 89 -> "Y"
      [] code = 95 -> "_"
      [] code = 97 -> "a"
      [] code = 98 -> "b"

RECURSIVE KvStr(_)
KvStr(key) == IF Len(key) = 0 THEN "" ELSE KvChr(key[1]) \o KvStr(Tail(key))

\* The keys "a", "b", "B" and "ab"
KvKeys == {<<97>>, <<98>>, <<66>>, <<97, 98>>}
KvValues == {"1", "2"}

\* Python's x < y on strings: lexicographic by code point, a proper prefix
\* being smaller.
RECURSIVE StrLess(_, _)
StrLess(x, y) ==
    IF Len(y) = 0 THEN FALSE
    ELSE IF Len(x) = 0 THEN TRUE
    ELSE IF x[1] # y[1] THEN x[1] < y[1]
    ELSE StrLess(Tail(x), Tail(y))

\* (key, value) tuples compare by key; the keys of a dict differ, so the
\* values are never compared.
ItemLess(x, y) == StrLess(x.key, y.key)

\* Faulty variant: the items are left in insertion order.
SortedItemsUnsorted(items) == items

\* Insert item into a sorted list, in front of the first greater item.
RECURSIVE KvInsertSorted(_, _)
KvInsertSorted(item, list) ==
    IF Len(list) = 0 THEN <<item>>
    ELSE IF ItemLess(item, list[1]) THEN <<item>> \o list
    ELSE <<list[1]>> \o KvInsertSorted(item, Tail(list))

RECURSIVE KvSortFrom(_, _)
KvSortFrom(items, acc) ==
    IF Len(items) = 0 THEN acc
    ELSE KvSortFrom(Tail(items), KvInsertSorted(items[1], acc))

\* sorted(self.items())
SortedItems(items) == KvSortFrom(items, <<>>)

\* self._key.format(idx) for the key "EnvironmentKeyValue{}"
KvName(idx) == "EnvironmentKeyValue" \o ToString(idx)

\* DeadlineKeyValueVar.serialize()
KvSerialize(items) ==
    LET sorted == SortedItems(items)
    IN  [name \in {KvName(idx) : idx \in 0..(Len(items) - 1)} |->
            LET idx == CHOOSE i \in 0..(Len(items) - 1) : KvName(i) = name
            IN  KvStr(sorted[idx + 1].key) \o "=" \o sorted[idx + 1].value]

KvHasKey(items, key) == \E i \in 1..Len(items) : items[i].key = key

\* dict.__setitem__: an existing key keeps its place, a new one goes last
KvSetItem(items, key, value) ==
    IF KvHasKey(items, key)
    THEN [i \in 1..Len(items) |->
            IF items[i].key = key THEN [key |-> key, value |-> value]
            ELSE items[i]]
    ELSE Append(items, [key |-> key, value |-> value])

KvInit ==
    /\ kv = <<>>
    /\ kv_out = <<>>

\* var[key] = value
KvOpSetItem ==
    \E key \in KvKeys, value \in KvValues :
        /\ KvHasKey(kv, key) \/ Len(kv) < MaxEntries
        /\ kv' = KvSetItem(kv, key, value)
        /\ kv_out' = <<>>

\* var.serialize()
KvOpSerialize ==
    /\ kv_out = <<>>
    /\ kv_out' = <<KvSerialize(kv)>>
    /\ UNCHANGED kv

KvIdle ==
    /\ kv = <<>>
    /\ kv_out = <<"idle">>

---------------------------------------------------------------------------
(* SpecJobInfo: lib.DeadlineJobInfo, its __setattr__ and serialize(), and  *)
(* the collector steps that set the machine filters.  A field is           *)
(* [none |-> value is None, v |-> the value]; a list field holds a list of *)
(* strings, an indexed field the dict of a DeadlineIndexedVar, the         *)
(* key-value field the items of a DeadlineKeyValueVar.  A string that is   *)
(* assigned to a list field is given as the sequence of its characters.    *)

MaxStr == 2
MaxAssign == 2

ListFields == {"JobDependencies", "Whitelist", "Blacklist", "LimitGroups"}
IndexedFields == {"ExtraInfo", "OutputFilename", "OutputFilenameTile"}
KeyValueFields == {"EnvironmentKeyValue"}

JiChars == {"m", ","}

\* "".join(chars)
RECURSIVE JiStr(_)
JiStr(chars) == IF Len(chars) = 0 THEN "" ELSE chars[1] \o JiStr(Tail(chars))

\* value.split(","), scanning the characters: cur is the token being read,
\* acc the tokens closed by a comma so far.
RECURSIVE SplitCommaFrom(_, _, _)
SplitCommaFrom(chars, cur, acc) ==
    IF Len(chars) = 0 THEN Append(acc, JiStr(cur))
    ELSE IF chars[1] = "," THEN SplitCommaFrom(Tail(chars), <<>>,
                                               Append(acc, JiStr(cur)))
    ELSE SplitCommaFrom(Tail(chars), Append(cur, chars[1]), acc)

SplitComma(chars) == SplitCommaFrom(chars, <<>>, <<>>)

JiNone == [none |-> TRUE, v |-> <<>>]
JiSome(v) == [none |-> FALSE, v |-> v]

\* The values a caller can assign: type is the Python type of the value.
JiValue(type, s, list, items) ==
    [type |-> type, s |-> s, list |-> list, items |-> items]
PyNone == JiValue("None", <<>>, <<>>, <<>>)
PyStr(chars) == JiValue("str", chars, <<>>, <<>>)
PyList(list) == JiValue("list", <<>>, list, <<>>)
PyDict(items) == JiValue("dict", <<>>, <<>>, items)

\* A key of a DeadlineIndexedVar is given as the pieces of the string
\* around "{}": <<"ExtraInfo">> is "ExtraInfo", <<"OutputFilename", "Tile">>
\* is "OutputFilename{}Tile".
\* DeadlineIndexedVar.__init__: if "{}" not in key: key += "{}"
IndexedVarKey(key) == IF Len(key) = 1 THEN <<key[1], "">> ELSE key

\* DeadlineIndexedVar(key): the empty dict with its _key
DeadlineIndexedVar(key) == [_key |-> IndexedVarKey(key), d |-> EmptyDict]

\* The key the default_factory of an indexed field is made with
IndexedDefaultKey(f) ==
    IF f = "OutputFilenameTile" THEN <<"OutputFilename", "Tile">> ELSE <<f>>

\* DeadlineJobInfo(): the dataclass defaults of the modelled fields
JobInfoDefaults ==
    [f \in ListFields \cup IndexedFields \cup KeyValueFields |->
        IF f \in ListFields THEN JiSome(<<>>)
        ELSE IF f \in IndexedFields
        THEN JiSome(DeadlineIndexedVar(IndexedDefaultKey(f)))
        ELSE JiSome(<<>>)]

JiOk(job) == [job |-> job, raised |-> "none"]

\* dict.update(value) of a DeadlineKeyValueVar for a plain list: every
\* element must be a sequence of length 2, taken as (key, value).
RECURSIVE KvUpdateFromList(_, _)
KvUpdateFromList(st, list) ==
    IF Len(list) = 0 \/ st.raised # "none" THEN st
    ELSE IF Len(list[1]) # 2 THEN [st EXCEPT !.raised = "ValueError"]
    ELSE KvUpdateFromList(
            [st EXCEPT !.d = KvSetItem(st.d, <<list[1][1]>>,
                                       KvChr(list[1][2]))],
            Tail(list))

\* dict.update(value) of a DeadlineKeyValueVar for a plain dict
RECURSIVE KvUpdateFromDict(_, _)
KvUpdateFromDict(st, items) ==
    IF Len(items) = 0 THEN st
    ELSE KvUpdateFromDict(
            [st EXCEPT !.d = KvSetItem(st.d, items[1].key, items[1].value)],
            Tail(items))

\* new_value = DeadlineIndexedVar(key); new_value.update(value): update()
\* iterates value.items(), which only a dict has.
IndexedFromValue(value) ==
    IF value.type = "dict" THEN IvUpdate(IvOk(EmptyDict), value.items)
    ELSE [d |-> EmptyDict, raised |-> "AttributeError"]

\* new_value = DeadlineKeyValueVar(key); new_value.update(value)
\* (a str is iterated character by character, each of length 1)
KeyValueFromValue(value) ==
    IF value.type = "dict" THEN KvUpdateFromDict(IvOk(<<>>), value.items)
    ELSE IF value.type = "str"
    THEN [d |-> <<>>,
          raised |-> IF Len(value.s) = 0 THEN "none" ELSE "ValueError"]
    ELSE KvUpdateFromList(IvOk(<<>>), value.list)

\* DeadlineJobInfo.__setattr__(key, value); st is the descriptor and the
\* exception raised so far.
JobInfoSetAttr(st, key, value) ==
    IF st.raised # "none" THEN st
    ELSE IF value.type = "None"
    THEN [st EXCEPT !.job = DictSet(st.job, key, JiNone)]
    ELSE IF key \in ListFields
    THEN IF value.type = "str"
         THEN [st EXCEPT !.job = DictSet(st.job, key,
                                         JiSome(SplitComma(value.s)))]
         ELSE [st EXCEPT !.job = DictSet(st.job, key, JiSome(value.list))]
    ELSE IF key \in IndexedFields
    THEN LET new_value == IndexedFromValue(value)
         IN  IF new_value.raised # "none"
             THEN [st EXCEPT !.raised = new_value.raised]
             ELSE [st EXCEPT !.job = DictSet(st.job, key,
                     JiSome([DeadlineIndexedVar(<<key>>) EXCEPT
                                !.d = new_value.d]))]
    ELSE LET new_value == KeyValueFromValue(value)
         IN  IF new_value.raised # "none"
             THEN [st EXCEPT !.raised = new_value.raised]
             ELSE [st EXCEPT !.job = DictSet(st.job, key,
                                             JiSome(new_value.d))]

\* self._key.format(index)
IndexedKeyFormat(key, index) == key[1] \o ToString(index) \o key[2]

\* DeadlineIndexedVar.serialize()
IndexedSerialize(var) ==
    [k \in {IndexedKeyFormat(var._key, i.v) : i \in DOMAIN var.d} |->
        var.d[CHOOSE i \in DOMAIN var.d :
                 IndexedKeyFormat(var._key, i.v) = k]]

\* output.update(other)
DictUpdate(output, other) ==
    [k \in (DOMAIN output) \cup (DOMAIN other) |->
        IF k \in DOMAIN other THEN other[k] ELSE output[k]]

\* DeadlineJobInfo._fill_serialize_value(key, value, output)
FillSerializeValue(key, value, output) ==
    IF value.none THEN output
    ELSE IF key \in IndexedFields
    THEN DictUpdate(output, IndexedSerialize(value.v))
    ELSE IF key \in KeyValueFields
    THEN DictUpdate(output, KvSerialize(value.v))
    ELSE DictSet(output, key, JoinComma(value.v))

\* DeadlineJobInfo.serialize(): the fields in their declaration order
JiFieldOrder ==
    <<"Whitelist", "Blacklist", "LimitGroups", "JobDependencies",
      "EnvironmentKeyValue", "ExtraInfo", "OutputFilename",
      "OutputFilenameTile">>

RECURSIVE SerializeFrom(_, _, _)
SerializeFrom(job, names, output) ==
    IF Len(names) = 0 THEN output
    ELSE SerializeFrom(job, Tail(names),
            IF names[1] \in DOMAIN job
            THEN FillSerializeValue(names[1], job[names[1]], output)
            ELSE output)

Serialize(job) == SerializeFrom(job, JiFieldOrder, EmptyDict)

\* The values drawn for the assignments.
JiStrings == UNION {[1..n -> JiChars] : n \in 0..MaxStr}
JiLists == {<<>>, <<"m">>, <<"m", "n">>}
JiListInputs ==
    {PyNone} \cup {PyStr(s) : s \in JiStrings} \cup {PyList(l) : l \in JiLists}

JiIndexedItems == [key : IvKeys, value : {"a"}]
JiIndexedDicts ==
    {<<>>} \cup {<<a>> : a \in JiIndexedItems}
    \cup {<<a, b>> : a \in JiIndexedItems,
                     b \in {[key |-> IvKey(1), value |-> "b"]}}
JiIndexedInputs ==
    {PyNone, PyList(<<>>), PyList(<<"a">>), PyList(<<"a", "b">>)}
    \cup {PyDict(items) : items \in
            {d \in JiIndexedDicts :
                \A i, j \in 1..Len(d) : d[i].key = d[j].key => i = j}}

\* Plain dicts and plain lists of strings (as code points) for the
\* key-value field: {}, {"b": "1"}, {"b": "1", "a": "2"}, [], ["a"], ["ab"],
\* ["ab", "ba"]
JiKeyValueInputs ==
    {PyNone,
     PyDict(<<>>),
     PyDict(<<[key |-> <<98>>, value |-> "1"]>>),
     PyDict(<<[key |-> <<98>>, value |-> "1"], [key |-> <<97>>, value |-> "2"]>>),
     PyList(<<>>), PyList(<<<<97>>>>), PyList(<<<<97, 98>>>>),
     PyList(<<<<97, 98>>, <<98, 97>>>>)}

\* attr_values["machine_list"] and the JSON object of
\* attr_values["additional_job_info"], as the list of its items
JiMachineLists == {<<>>, <<"m">>}
JiJsonValues == {PyStr(<<"m">>), PyStr(<<>>), PyList(<<"m">>)}
JiJsonItems == [key : {"Whitelist", "Blacklist"}, value : JiJsonValues]
JiJsonObjects ==
    {<<>>} \cup {<<a>> : a \in JiJsonItems}
    \cup {<<a, b>> : a \in {i \in JiJsonItems : i.key = "Whitelist"},
                     b \in {i \in JiJsonItems : i.key = "Blacklist"}}

JiInit ==
    /\ ji = JobInfoDefaults
    /\ ji_n = 0
    /\ ji_last = [op |-> "init", key |-> "", value |-> PyNone,
                  raised |-> "none"]

JiStep(op, key, value, st) ==
    /\ ji_n < MaxAssign
    /\ ji_n' = ji_n + 1
    /\ ji' = st.job
    /\ ji_last' = [op |-> op, key |-> key, value |-> value,
                   raised |-> st.raised]

\* job_info.<list field> = value
JiAssignList ==
    \E key \in ListFields, value \in JiListInputs :
        JiStep("setattr", key, value, JobInfoSetAttr(JiOk(ji), key, value))

\* job_info.<indexed field> = value
JiAssignIndexed ==
    \E key \in IndexedFields, value \in JiIndexedInputs :
        JiStep("setattr", key, value, JobInfoSetAttr(JiOk(ji), key, value))

\* job_info.<key-value field> = value
JiAssignKeyValue ==
    \E key \in KeyValueFields, value \in JiKeyValueInputs :
        JiStep("setattr", key, value, JobInfoSetAttr(JiOk(ji), key, value))

\* CollectJobInfo._handle_machine_list(attr_values, job_info)
HandleMachineList(st, machine_list, machine_list_deny) ==
    IF Len(machine_list) = 0 THEN st
    ELSE IF machine_list_deny
    THEN JobInfoSetAttr(JobInfoSetAttr(st, "Blacklist", PyList(machine_list)),
                        "Whitelist", PyNone)
    ELSE JobInfoSetAttr(JobInfoSetAttr(st, "Whitelist", PyList(machine_list)),
                        "Blacklist", PyNone)

\* CollectJobInfo._handle_additional_jobinfo(attr_values, job_info):
\* for key, value in json.loads(additional_job_info).items(): setattr(...)
RECURSIVE HandleAdditionalJobinfo(_, _)
HandleAdditionalJobinfo(st, items) ==
    IF Len(items) = 0 THEN st
    ELSE HandleAdditionalJobinfo(
            JobInfoSetAttr(st, items[1].key, items[1].value), Tail(items))

JiHandleMachineList ==
    \E machine_list \in JiMachineLists, deny \in BOOLEAN :
        JiStep("machine_list", IF deny THEN "Blacklist" ELSE "Whitelist",
               PyList(machine_list),
               HandleMachineList(JiOk(ji), machine_list, deny))

JiHandleAdditionalJobinfo ==
    \E items \in JiJsonObjects :
        JiStep("additional_job_info", "", PyDict(items),
               HandleAdditionalJobinfo(JiOk(ji), items))

\* JobType.RENDER.get_job_env(): "AYON_PUBLISH_JOB", "AYON_RENDER_JOB" and
\* "AYON_REMOTE_PUBLISH", in the order of the dict literal
RenderJobEnv ==
    <<[key |-> <<65, 89, 79, 78, 95, 80, 85, 66, 76, 73, 83, 72, 95, 74, 79,
                 66>>,
       value |-> "0"],
      [key |-> <<65, 89, 79, 78, 95, 82, 69, 78, 68, 69, 82, 95, 74, 79, 66>>,
       value |-> "1"],
      [key |-> <<65, 89, 79, 78, 95, 82, 69, 77, 79, 84, 69, 95, 80, 85, 66,
                 76, 73, 83, 72>>,
       value |-> "0"]>>

\* get_instance_job_envs(instance): the job env of the context updated with
\* the one of the instance, sorted by key
GetInstanceJobEnvs(context_env, instance_env) ==
    SortedItems(
        KvUpdateFromDict(KvUpdateFromDict(IvOk(<<>>), context_env),
                         instance_env).d)

\* PublishDeadlineJobInfo.add_render_job_env_var(): the update changes the
\* DeadlineKeyValueVar in place; None has no update().
AddRenderJobEnvVar(st) ==
    IF st.job["EnvironmentKeyValue"].none
    THEN [st EXCEPT !.raised = "AttributeError"]
    ELSE [st EXCEPT !.job = DictSet(st.job, "EnvironmentKeyValue",
            JiSome(KvUpdateFromDict(IvOk(st.job["EnvironmentKeyValue"].v),
                                    RenderJobEnv).d))]

\* PublishDeadlineJobInfo.add_instance_job_env_vars(instance): one item
\* assignment per variable; None supports none.
AddInstanceJobEnvVars(st, env) ==
    IF Len(env) = 0 THEN st
    ELSE IF st.job["EnvironmentKeyValue"].none
    THEN [st EXCEPT !.raised = "TypeError"]
    ELSE [st EXCEPT !.job = DictSet(st.job, "EnvironmentKeyValue",
            JiSome(KvUpdateFromDict(IvOk(st.job["EnvironmentKeyValue"].v),
                                    env).d))]

\* context.data["farmJobEnv"] and instance.data["farmJobEnv"]
JiJobEnvs ==
    {<<>>,
     <<[key |-> <<98>>, value |-> "1"]>>,
     <<[key |-> <<98>>, value |-> "2"], [key |-> <<97>>, value |-> "1"]>>}

JiAddInstanceJobEnvVars ==
    \E context_env \in JiJobEnvs, instance_env \in JiJobEnvs :
        LET env == GetInstanceJobEnvs(context_env, instance_env)
        IN  JiStep("add_instance_job_env_vars", "EnvironmentKeyValue",
                   PyDict(env), AddInstanceJobEnvVars(JiOk(ji), env))

JiAddRenderJobEnvVar ==
    JiStep("add_render_job_env_var", "EnvironmentKeyValue",
           PyDict(RenderJobEnv), AddRenderJobEnvVar(JiOk(ji)))

JiIdle ==
    /\ ji = <<>>
    /\ ji_n = 0
    /\ ji_last = <<>>

---------------------------------------------------------------------------
(* SpecChain: the jobs one instance submits, for Nuke (render, baking),    *)
(* 3dsmax (one job per camera), Houdini (export, render) and Maya (V-Ray   *)
(* scene export, render, tiles and assembly), and the publish job          *)
(* ProcessSubmittedJobOnFarm submits after them.  Of a job descriptor only *)
(* JobDependencies is kept.  ch_posted is the farm side: for every POST    *)
(* the kind of job, its JobDependencies field, the farm's answer and the   *)
(* id it gave.  instance.data["tileRendering"] is <<>> when absent.        *)

MaxBaking == 2
MaxCameras == 2

ChainInstances ==
    [host : {"nuke"}, render_target : {"farm", "frames_farm"},
     bakingNukeScripts : 0..MaxBaking, multiCamera : {FALSE}, cameras : {0},
     splitRender : {FALSE}, vrayscene : {FALSE}, tileRendering : {<<>>},
     JobDependencies : CollectedDependencies]
    \cup
    [host : {"max"}, render_target : {"farm"}, bakingNukeScripts : {0},
     multiCamera : BOOLEAN, cameras : 0..MaxCameras,
     splitRender : {FALSE}, vrayscene : {FALSE}, tileRendering : {<<>>},
     JobDependencies : CollectedDependencies]
    \cup
    [host : {"houdini"}, render_target : {"farm"}, bakingNukeScripts : {0},
     multiCamera : {FALSE}, cameras : {0},
     splitRender : BOOLEAN, vrayscene : {FALSE}, tileRendering : {<<>>},
     JobDependencies : CollectedDependencies]
    \cup
    [host : {"maya"}, render_target : {"farm"}, bakingNukeScripts : {0},
     multiCamera : {FALSE}, cameras : {0},
     splitRender : {FALSE}, vrayscene : BOOLEAN,
     tileRendering : {<<TRUE>>, <<FALSE>>},
     JobDependencies : CollectedDependencies]

\* instance.data entries the submitters write: deadlineSubmissionJob and
\* assemblySubmissionJobs are <<>> (absent) or <<value>>.
ChNoData ==
    [deadlineSubmissionJob |-> <<>>, bakingSubmissionJobs |-> <<>>,
     assemblySubmissionJobs |-> <<>>]

ChInit ==
    /\ ch_in \in ChainInstances
    /\ ch_pc = "start"
    /\ ch_job_info = [JobDependencies |-> ch_in.JobDependencies]
    /\ ch_i = 0
    /\ ch_data = ChNoData
    /\ ch_posted = <<>>
    /\ ch_error = "none"

\* One call of AbstractSubmitDeadline.submit(payload, auth, verify) for a
\* job of the given kind: the POST is logged, the parsed body stored in
\* instance.data["deadlineSubmissionJob"], and on an exception the plugin
\* ends.  next_pc is where the caller goes on when submit() returned; the
\* Nuke loop then appends the id to instance.data["bakingSubmissionJobs"].
ChSubmit(kind, job, answer, next_pc, next_i) ==
    LET result == FarmResult(answer, ch_posted)
    IN  /\ ch_posted' = Append(ch_posted,
                               [kind |-> kind,
                                JobDependencies |-> JiSome(job.JobDependencies),
                                answer |-> answer, id |-> result._id])
        /\ ch_data' = [ch_data EXCEPT
                         !.deadlineSubmissionJob =
                            IF SubmitStoresResult(answer) THEN <<result>>
                            ELSE @,
                         !.bakingSubmissionJobs =
                            IF SubmitRaises(answer) = "none"
                               /\ kind = "baking"
                            THEN Append(@, result._id)
                            ELSE @]
        /\ ch_error' = SubmitRaises(answer)
        /\ ch_pc' = IF SubmitRaises(answer) = "none" THEN next_pc ELSE "raised"
        /\ ch_i' = IF SubmitRaises(answer) = "none" THEN next_i ELSE ch_i

\* if instance.data.get("bakingNukeScripts"): for baking_script in ...
NukeAfterRender == IF ch_in.bakingNukeScripts > 0 THEN "baking" ELSE "publish"

\* NukeSubmitDeadline.process up to and including the render submission:
\* if instance.data["render_target"] != "frames_farm":
\*     job_id = self.process_submission()
NukeRender ==
    /\ ch_pc = "start"
    /\ ch_in.host = "nuke"
    /\ IF ch_in.render_target # "frames_farm"
       THEN /\ \E answer \in FarmAnswers :
                    ChSubmit("render", ch_job_info, answer, NukeAfterRender,
                             0)
            /\ UNCHANGED <<ch_in, ch_job_info>>
       ELSE /\ ch_pc' = NukeAfterRender
            /\ UNCHANGED <<ch_in, ch_job_info, ch_i, ch_data, ch_posted,
                           ch_error>>

\* response_data = instance.data.get("deadlineSubmissionJob", {})
\* if response_data.get("_id"):
\*     self.job_info.JobDependencies.append(response_data["_id"])
NukeBakeDependencies(deps, response_data) ==
    IF response_data # <<>> /\ response_data[1].has_id
    THEN Append(deps, response_data[1]._id)
    ELSE deps

\* One pass of the loop over instance.data["bakingNukeScripts"]: the job
\* descriptor is deep-copied, made dependent on the job submitted last and
\* submitted; its id is appended to instance.data["bakingSubmissionJobs"].
NukeBake ==
    /\ ch_pc = "baking"
    /\ ch_i < ch_in.bakingNukeScripts
    /\ LET job == [JobDependencies |->
                     NukeBakeDependencies(ch_job_info.JobDependencies,
                                          ch_data.deadlineSubmissionJob)]
       IN  /\ ch_job_info' = job
           /\ \E answer \in FarmAnswers :
                ChSubmit("baking", job, answer,
                         IF ch_i + 1 < ch_in.bakingNukeScripts
                         THEN "baking" ELSE "publish",
                         ch_i + 1)
    /\ UNCHANGED ch_in

\* The number of jobs MaxSubmitDeadline.process_submission submits: one per
\* camera for a multi-camera instance, else one.
MaxJobCount == IF ch_in.multiCamera THEN ch_in.cameras ELSE 1

\* MaxSubmitDeadline.process_submission, one submit() per step: each job
\* descriptor is a deep copy of self.job_info.
MaxSubmit ==
    /\ ch_pc = "start"
    /\ ch_in.host = "max"
    /\ IF ch_i < MaxJobCount
       THEN /\ \E answer \in FarmAnswers :
                    ChSubmit(IF ch_in.multiCamera THEN "camera" ELSE "render",
                             ch_job_info, answer,
                             IF ch_i + 1 < MaxJobCount THEN "start"
                             ELSE "publish",
                             ch_i + 1)
            /\ UNCHANGED <<ch_in, ch_job_info>>
       ELSE /\ ch_pc' = "publish"
            /\ UNCHANGED <<ch_in, ch_job_info, ch_i, ch_data, ch_posted,
                           ch_error>>

\* AbstractSubmitDeadline.process for a Houdini instance, up to and
\* including process_submission(): the job (the export job of a split
\* render) is submitted with the collected dependencies.
HoudiniSubmit ==
    /\ ch_pc = "start"
    /\ ch_in.host = "houdini"
    /\ \E answer \in FarmAnswers :
            ChSubmit(IF ch_in.splitRender THEN "export" ELSE "render",
                     ch_job_info, answer,
                     IF ch_in.splitRender THEN "split" ELSE "publish", 0)
    /\ UNCHANGED <<ch_in, ch_job_info>>

\* if instance.data.get("splitRender"): the render job is made from the
\* collected descriptor with dependency_job_ids=[job_id]
\* (job_info.JobDependencies = dependency_job_ids) and submitted.
HoudiniSplitRender ==
    /\ ch_pc = "split"
    /\ LET job_id == ch_data.deadlineSubmissionJob[1]._id
           job == [JobDependencies |->
                     HoudiniDependencies(ch_job_info, <<job_id>>)]
       IN  \E answer \in FarmAnswers :
                ChSubmit("render", job, answer, "publish", 0)
    /\ UNCHANGED <<ch_in, ch_job_info>>

\* _get_vray_export_payload returns asdict(plugin_info) of a plain dict:
\* dataclasses.asdict accepts dataclass instances only.
VrayExportPayloadRaises == "TypeError"

\* _tile_render: plugin_info["Renderer"] of the V-Ray render payload,
\* asdict(VRayPluginInfo(...)), which has no such key.
VrayTileRenderRaises == "KeyError(Renderer)"

\* MayaSubmitDeadline.process_submission up to the export job: with
\* "vrayscene" in families the export payload is built first, which
\* raises before the export job is submitted.
MayaExport ==
    /\ ch_pc = "start"
    /\ ch_in.host = "maya"
    /\ IF ch_in.vrayscene
       THEN /\ ch_error' = VrayExportPayloadRaises
            /\ ch_pc' = "raised"
            /\ UNCHANGED <<ch_in, ch_job_info, ch_i, ch_data, ch_posted>>
       ELSE /\ ch_pc' = "maya_render"
            /\ UNCHANGED <<ch_in, ch_job_info, ch_i, ch_data, ch_posted,
                           ch_error>>

\* if export_job: job_info.JobDependencies.append(export_job), on the deep
\* copy of self.job_info the payload holds; export_job is None (<<>>)
\* unless an export job was submitted.
MayaRenderDependencies(deps, export_job) ==
    IF export_job # <<>> /\ export_job[1] # ""
    THEN Append(deps, export_job[1]) ELSE deps

\* MayaSubmitDeadline.process_submission after the export: with
\* tileRendering, _tile_render(payload) raises before any job is submitted
\* (for a V-Ray scene payload at its first statement, else in the first
\* pass of its frame loop); else the render job is submitted.
MayaRender ==
    /\ ch_pc = "maya_render"
    /\ LET export_job == IF ch_in.vrayscene
                            /\ ch_data.deadlineSubmissionJob # <<>>
                         THEN <<ch_data.deadlineSubmissionJob[1]._id>>
                         ELSE <<>>
           job == [JobDependencies |->
                     MayaRenderDependencies(ch_job_info.JobDependencies,
                                            export_job)]
       IN  IF ch_in.tileRendering = <<TRUE>>
           THEN /\ ch_error' = IF ch_in.vrayscene THEN VrayTileRenderRaises
                               ELSE JobInfoUpdateRaises
                /\ ch_pc' = "raised"
                /\ UNCHANGED <<ch_i, ch_data, ch_posted>>
           ELSE \E answer \in FarmAnswers :
                    ChSubmit("render", job, answer, "publish", 0)
    /\ UNCHANGED <<ch_in, ch_job_info>>

\* ProcessSubmittedJobOnFarm._get_dependency_ids(instance, render_job)
GetDependencyIds(instance, data, render_job) ==
    IF instance.tileRendering = <<TRUE>>
    THEN IF data.assemblySubmissionJobs = <<>> THEN PyNone
         ELSE PyList(data.assemblySubmissionJobs[1])
    ELSE IF Len(data.bakingSubmissionJobs) > 0
    THEN PyList(data.bakingSubmissionJobs)
    ELSE IF render_job # <<>> /\ render_job[1].has_id
    THEN PyList(<<render_job[1]._id>>)
    ELSE PyNone

\* DeadlineAddon.submit_job: response.raise_for_status(), response.json(),
\* then ["response"]["_id"] of _submit_deadline_post_job
PublishSubmitRaises(answer) ==
    CASE answer = "exception" -> "RequestException"
      [] answer = "not_ok"    -> "HTTPError"
      [] answer = "bad_json"  -> "JSONDecodeError"
      [] answer = "no_id"     -> "KeyError(_id)"
      [] OTHER                -> "none"

\* ProcessSubmittedJobOnFarm.process from the pop of "deadlineSubmissionJob"
\* to the submission of the publish job
\* (DeadlineJobInfo(JobDependencies=dependency_ids, ...)); without a render
\* job it raises when instance.data["tileRendering"] is False.
PublishJob ==
    /\ ch_pc = "publish"
    /\ IF ch_data.deadlineSubmissionJob = <<>>
          /\ ch_in.tileRendering = <<FALSE>>
       THEN /\ ch_error' = "AssertionError"
            /\ ch_pc' = "raised"
            /\ UNCHANGED <<ch_data, ch_posted>>
       ELSE \E answer \in FarmAnswers :
        LET render_job == ch_data.deadlineSubmissionJob
            dependency_ids == GetDependencyIds(ch_in, ch_data, render_job)
            job_info == JobInfoSetAttr(JiOk(JobInfoDefaults),
                                       "JobDependencies", dependency_ids).job
            result == FarmResult(answer, ch_posted)
        IN  /\ ch_posted' = Append(ch_posted,
                               [kind |-> "publish",
                                JobDependencies |-> job_info["JobDependencies"],
                                answer |-> answer, id |-> result._id])
            /\ ch_data' = [ch_data EXCEPT !.deadlineSubmissionJob = <<>>]
            /\ ch_error' = PublishSubmitRaises(answer)
            /\ ch_pc' = IF PublishSubmitRaises(answer) = "none" THEN "done"
                        ELSE "raised"
    /\ UNCHANGED <<ch_in, ch_job_info, ch_i>>

ChIdle ==
    /\ ch_pc = "idle"
    /\ ch_in = <<>>
    /\ ch_job_info = <<>>
    /\ ch_i = 0
    /\ ch_data = <<>>
    /\ ch_posted = <<>>
    /\ ch_error = "none"

---------------------------------------------------------------------------
(* SpecEnvCache: inject_ayon_environment of GlobalJobPreLoad.py with       *)
(* environment caching, run by several workers of one job and site group   *)
(* on a shared directory.  Every file system call is one step.  A file is  *)
(* [exists, content, writers, stale, clobbered]: writers are the workers   *)
(* whose extraction process holds the file open for writing (a rename      *)
(* keeps them, a removal orphans them), stale says that its modification   *)
(* time is older than the timeout, clobbered that it was truncated while   *)
(* a process was writing it.                                               *)

MaxWorkers == 2

Workers == 1..MaxWorkers

NoFile == [exists |-> FALSE, content |-> "", writers |-> {}, stale |-> FALSE,
           clobbered |-> FALSE]

EcInit ==
    /\ ec_pc = [w \in Workers |-> "wait"]
    /\ ec_tmp = NoFile
    /\ ec_export = NoFile
    /\ ec_read = [w \in Workers |-> <<>>]
    /\ ec_error = [w \in Workers |-> "none"]
    /\ ec_posix \in BOOLEAN
    /\ ec_stale_removed = FALSE
    /\ ec_all_kwargs \in BOOLEAN

EcGoto(w, pc) == ec_pc' = [ec_pc EXCEPT ![w] = pc]
EcRaise(w, error) ==
    /\ ec_pc' = [ec_pc EXCEPT ![w] = "raised"]
    /\ ec_error' = [ec_error EXCEPT ![w] = error]

\* open(path, "w") on the in-progress file: it is created, or truncated
\* under the processes that are writing it; its modification time is now.
OpenTruncated(file) ==
    [exists |-> TRUE, content |-> "empty", writers |-> file.writers,
     stale |-> FALSE,
     clobbered |-> file.exists /\ (file.clobbered \/ file.writers # {})]

\* _wait_for_in_progress: while os.path.exists(export_in_progress_path)
EcWaitCheck(w) ==
    /\ ec_pc[w] = "wait"
    /\ EcGoto(w, IF ec_tmp.exists THEN "mtime" ELSE "check_export")
    /\ UNCHANGED <<ec_tmp, ec_export, ec_read, ec_error, ec_posix,
                   ec_stale_removed, ec_all_kwargs>>

\* _wait_for_in_progress: os.path.getmtime(...), the comparison with the
\* timeout, and sleep(2) when the file is not stale
EcWaitMtime(w) ==
    /\ ec_pc[w] = "mtime"
    /\ IF ~ec_tmp.exists THEN EcRaise(w, "FileNotFoundError")
       ELSE /\ EcGoto(w, IF ec_tmp.stale THEN "remove_stale" ELSE "wait")
            /\ UNCHANGED ec_error
    /\ UNCHANGED <<ec_tmp, ec_export, ec_read, ec_posix, ec_stale_removed,
                   ec_all_kwargs>>

\* _wait_for_in_progress: os.remove(export_in_progress_path); break
EcRemoveStale(w) ==
    /\ ec_pc[w] = "remove_stale"
    /\ IF ~ec_tmp.exists
       THEN /\ EcRaise(w, "RuntimeError")
            /\ UNCHANGED <<ec_tmp, ec_stale_removed>>
       ELSE /\ ec_tmp' = NoFile
            /\ ec_stale_removed' = TRUE
            /\ EcGoto(w, "check_export")
            /\ UNCHANGED ec_error
    /\ UNCHANGED <<ec_export, ec_read, ec_posix, ec_all_kwargs>>

\* inject_ayon_environment: if not os.path.exists(export_path)
EcCheckExport(w) ==
    /\ ec_pc[w] = "check_export"
    /\ EcGoto(w, IF ec_export.exists THEN "load" ELSE "create_tmp")
    /\ UNCHANGED <<ec_tmp, ec_export, ec_read, ec_error, ec_posix,
                   ec_stale_removed, ec_all_kwargs>>

\* inject_ayon_environment: with open(temp_export_path, "w"): pass
EcCreateTmp(w) ==
    /\ ec_pc[w] = "create_tmp"
    /\ ec_tmp' = OpenTruncated(ec_tmp)
    /\ EcGoto(w, "extract")
    /\ UNCHANGED <<ec_export, ec_read, ec_error, ec_posix, ec_stale_removed,
                   ec_all_kwargs>>

\* _extract_environments: if not all(add_kwargs.values()): raise
\* RuntimeError, before RunProcess; the finally block of the caller is next.
EcExtractRaise(w) ==
    /\ ec_pc[w] = "extract"
    /\ ~ec_all_kwargs
    /\ ec_error' = [ec_error EXCEPT ![w] = "RuntimeError"]
    /\ EcGoto(w, "finally")
    /\ UNCHANGED <<ec_tmp, ec_export, ec_read, ec_posix, ec_stale_removed,
                   ec_all_kwargs>>

\* _extract_environments: the process started by RunProcess opens
\* temp_export_path for writing and starts to write the environment.
EcExtractWrite(w) ==
    /\ ec_pc[w] = "extract"
    /\ ec_all_kwargs
    /\ ec_tmp' = [OpenTruncated(ec_tmp) EXCEPT
                    !.content = "partial", !.writers = @ \cup {w}]
    /\ EcGoto(w, "writing")
    /\ UNCHANGED <<ec_export, ec_read, ec_error, ec_posix, ec_stale_removed,
                   ec_all_kwargs>>

\* _extract_environments: the process exits with a failure before it
\* writes anything; RunProcess returns its exit code, which is not looked at.
EcExtractFail(w) ==
    /\ ec_pc[w] = "extract"
    /\ ec_all_kwargs
    /\ EcGoto(w, "after_extract")
    /\ UNCHANGED <<ec_tmp, ec_export, ec_read, ec_error, ec_posix,
                   ec_stale_removed, ec_all_kwargs>>

\* The file after the process of worker w wrote its last byte and closed
\* it; complete says whether the content is the whole environment.
FileClosedBy(file, w, complete) ==
    [file EXCEPT !.writers = @ \ {w},
                 !.content = IF complete THEN "complete" ELSE "partial",
                 !.stale = FALSE]

MayBeIncomplete(file, w) == file.clobbered \/ file.writers # {w}

\* _extract_environments: the process finishes writing and exits.  The
\* file it wrote may meanwhile have been renamed (it writes on under the
\* new name) or removed (its output is lost); the content of a file that
\* was truncated under a writer, or that another process still writes, is
\* either the whole environment or not.
EcExtractFinish(w) ==
    /\ ec_pc[w] = "writing"
    /\ \E complete \in BOOLEAN :
        IF w \in ec_tmp.writers
        THEN /\ complete \/ MayBeIncomplete(ec_tmp, w)
             /\ ec_tmp' = FileClosedBy(ec_tmp, w, complete)
             /\ UNCHANGED ec_export
        ELSE IF w \in ec_export.writers
        THEN /\ complete \/ MayBeIncomplete(ec_export, w)
             /\ ec_export' = FileClosedBy(ec_export, w, complete)
             /\ UNCHANGED ec_tmp
        ELSE /\ complete
             /\ UNCHANGED <<ec_tmp, ec_export>>
    /\ EcGoto(w, "after_extract")
    /\ UNCHANGED <<ec_read, ec_error, ec_posix, ec_stale_removed,
                   ec_all_kwargs>>

\* inject_ayon_environment: if (not os.path.exists(export_path) and ...
\* The first call of the condition; when the cache file exists the second
\* call is not made.
EcRenameCheckExport(w) ==
    /\ ec_pc[w] = "after_extract"
    /\ EcGoto(w, IF ec_export.exists THEN "finally" ELSE "rename_check_tmp")
    /\ UNCHANGED <<ec_tmp, ec_export, ec_read, ec_error, ec_posix,
                   ec_stale_removed, ec_all_kwargs>>

\* inject_ayon_environment: ... and os.path.exists(temp_export_path))
EcRenameCheckTmp(w) ==
    /\ ec_pc[w] = "rename_check_tmp"
    /\ EcGoto(w, IF ec_tmp.exists THEN "rename" ELSE "finally")
    /\ UNCHANGED <<ec_tmp, ec_export, ec_read, ec_error, ec_posix,
                   ec_stale_removed, ec_all_kwargs>>

\* inject_ayon_environment: os.rename(temp_export_path, export_path).  It
\* raises when the source is gone; when the target exists meanwhile it
\* replaces it on POSIX and raises on Windows.
EcRename(w) ==
    /\ ec_pc[w] = "rename"
    /\ IF ~ec_tmp.exists
       THEN /\ ec_error' = [ec_error EXCEPT ![w] = "FileNotFoundError"]
            /\ UNCHANGED <<ec_tmp, ec_export>>
       ELSE IF ec_export.exists /\ ~ec_posix
       THEN /\ ec_error' = [ec_error EXCEPT ![w] = "FileExistsError"]
            /\ UNCHANGED <<ec_tmp, ec_export>>
       ELSE /\ ec_export' = ec_tmp
            /\ ec_tmp' = NoFile
            /\ UNCHANGED ec_error
    /\ EcGoto(w, "finally")
    /\ UNCHANGED <<ec_read, ec_posix, ec_stale_removed, ec_all_kwargs>>

\* inject_ayon_environment: finally: if os.path.exists(temp_export_path)
\* When the file is not there the block is left: the pending exception of
\* os.rename goes on, otherwise the function goes on to load.
EcFinallyCheck(w) ==
    /\ ec_pc[w] = "finally"
    /\ EcGoto(w, IF ec_tmp.exists THEN "finally_remove"
                 ELSE IF ec_error[w] = "none" THEN "load" ELSE "raised")
    /\ UNCHANGED <<ec_tmp, ec_export, ec_read, ec_error, ec_posix,
                   ec_stale_removed, ec_all_kwargs>>

\* inject_ayon_environment: finally: os.remove(temp_export_path).  It
\* raises out of the finally block when the file is gone meanwhile.
EcFinallyRemove(w) ==
    /\ ec_pc[w] = "finally_remove"
    /\ IF ~ec_tmp.exists
       THEN /\ EcRaise(w, "FileNotFoundError")
            /\ UNCHANGED ec_tmp
       ELSE /\ ec_tmp' = NoFile
            /\ EcGoto(w, IF ec_error[w] = "none" THEN "load" ELSE "raised")
            /\ UNCHANGED ec_error
    /\ UNCHANGED <<ec_export, ec_read, ec_posix, ec_stale_removed,
                   ec_all_kwargs>>

\* inject_ayon_environment: with open(export_path) as fp:
\*                              contents = json.load(fp)
EcLoad(w) ==
    /\ ec_pc[w] = "load"
    /\ IF ~ec_export.exists
       THEN /\ EcRaise(w, "FileNotFoundError")
            /\ UNCHANGED ec_read
       ELSE /\ ec_read' = [ec_read EXCEPT ![w] =
                            <<[content |-> ec_export.content,
                               being_written |-> ec_export.writers # {}]>>]
            /\ IF ec_export.content = "complete"
               THEN EcGoto(w, "done") /\ UNCHANGED ec_error
               ELSE EcRaise(w, "JSONDecodeError")
    /\ UNCHANGED <<ec_tmp, ec_export, ec_posix, ec_stale_removed,
                   ec_all_kwargs>>

\* Time passes: the in-progress file has not been written for longer than
\* the timeout (AYON_EXTRACT_ENVIRONMENT_TIMEOUT).
EcTimeout ==
    /\ ec_tmp.exists
    /\ ~ec_tmp.stale
    /\ ec_tmp' = [ec_tmp EXCEPT !.stale = TRUE]
    /\ UNCHANGED <<ec_pc, ec_export, ec_read, ec_error, ec_posix,
                   ec_stale_removed, ec_all_kwargs>>

EcIdle ==
    /\ ec_pc = <<>>
    /\ ec_tmp = <<>>
    /\ ec_export = <<>>
    /\ ec_read = <<>>
    /\ ec_error = <<>>
    /\ ec_posix = FALSE
    /\ ec_stale_removed = FALSE
    /\ ec_all_kwargs = FALSE

---------------------------------------------------------------------------
(* SpecServerInfo: DeadlineAddon.get_server_info_by_name and the four farm *)
(* queries of lib.py behind it, called by the collector, one call after   *)
(* the other, on one addon.  The lookup in the cache, each blocking query  *)
(* and the store into the cache are steps of their own.  The farm's reply  *)
(* to a query is [kind, json]: kind "connection_error" (requests raises    *)
(* ConnectionError), "not_ok" (a response whose ok is false) or "ok" with  *)
(* the JSON list.  A cache slot or an optional value is <<>> (None) or     *)
(* <<value>>.                                                              *)

MaxFills == 2
MaxCalls == 3

ServerNames == {"default", "other"}

QueryOrder == <<"pools", "groups", "limit_groups", "machines">>

\* The item names of the farm in Python's string order.
NameOrder == <<"a", "none">>

NamePosition(name) == CHOOSE i \in 1..Len(NameOrder) : NameOrder[i] = name

\* key=lambda value: (value != "none", value), compared as Python tuples.
InfoKeyLess(x, y) ==
    \/ x = "none" /\ y # "none"
    \/ (x = "none") = (y = "none") /\ NamePosition(x) < NamePosition(y)

RECURSIVE InsertSorted(_, _)
InsertSorted(sorted, value) ==
    IF sorted = <<>> THEN <<value>>
    ELSE IF InfoKeyLess(value, Head(sorted))
         THEN <<value>> \o sorted
         ELSE <<Head(sorted)>> \o InsertSorted(Tail(sorted), value)

RECURSIVE SortedInfo(_)
SortedInfo(list) ==
    IF list = <<>> THEN <<>>
    ELSE InsertSorted(SortedInfo(SubSeq(list, 1, Len(list) - 1)),
                      list[Len(list)])

FarmLists == {<<"a", "none">>}

\* The answers the farm may give to any of the four queries.
FarmReplies ==
    {[kind |-> "connection_error", json |-> <<>>],
     [kind |-> "not_ok", json |-> <<>>]}
    \cup {[kind |-> "ok", json |-> list] : list \in FarmLists}

\* _get_deadline_info: what it raises and what it returns.
GetDeadlineInfo(reply) ==
    IF reply.kind = "connection_error"
    THEN [raised |-> "DeadlineWebserviceError", value |-> <<>>]
    ELSE IF reply.kind = "not_ok"
    THEN [raised |-> "none", value |-> <<>>]
    ELSE [raised |-> "none", value |-> SortedInfo(reply.json)]

\* DeadlineServerInfo(pools=..., limit_groups=..., groups=..., machines=...)
\* of the values the four queries returned, in the order of QueryOrder.
DeadlineServerInfo(values) ==
    [pools |-> values[1], limit_groups |-> values[3],
     groups |-> values[2], machines |-> values[4]]

\* Faulty variant: the lookup never finds the entry.
ServerInfoLookupMiss(cache, server_name) == <<>>

\* self._server_info_by_name.get(server_name)
ServerInfoLookup(cache, server_name) == cache[server_name]

\* No call of get_server_info_by_name is in progress.
SiNoCall ==
    [pc |-> "idle", server |-> "", queries |-> <<>>, values |-> <<>>,
     later |-> FALSE]

\* No call has ended yet.  later says that the call started after a call
\* for the same server name had returned.
SiNotDone ==
    [server |-> "", outcome |-> "none", result |-> <<>>,
     queries |-> <<>>, stored |-> FALSE, later |-> FALSE]

\* No store yet.  changed are the server names whose entry the store
\* replaced or created.
SiNoWrite == [server |-> "", changed |-> {}]

SiInit ==
    /\ si_cache = [s \in ServerNames |-> <<>>]
    /\ si_first = [s \in ServerNames |-> <<>>]
    /\ si_source = [s \in ServerNames |-> <<>>]
    /\ si_fills = [s \in ServerNames |-> 0]
    /\ si_call = SiNoCall
    /\ si_calls = 0
    /\ si_last = SiNotDone
    /\ si_write = SiNoWrite

SiCountFill(server_name) ==
    si_fills' = [si_fills EXCEPT
        ![server_name] = IF @ < MaxFills THEN @ + 1 ELSE @]

\* return server_info: the call ends.
SiReturn(call, server_info, stored) ==
    /\ si_call' = SiNoCall
    /\ si_last' = [server |-> call.server,
                   outcome |-> "returned", result |-> <<server_info>>,
                   queries |-> call.queries, stored |-> stored,
                   later |-> call.later]
    /\ si_first' = IF si_first[call.server] = <<>>
                   THEN [si_first EXCEPT ![call.server] = <<server_info>>]
                   ELSE si_first

\* get_server_info_by_name, entry and lookup: a cached entry is returned at
\* once, otherwise the call goes on to the queries.
GetServerInfoLookup(server_name) ==
    /\ si_call.pc = "idle"
    /\ si_calls < MaxCalls
    /\ si_calls' = si_calls + 1
    /\ LET server_info == ServerInfoLookup(si_cache, server_name)
           call == [SiNoCall EXCEPT
                      !.server = server_name,
                      !.later = si_first[server_name] # <<>>]
       IN  IF server_info # <<>>
           THEN SiReturn(call, server_info[1], FALSE)
           ELSE /\ si_call' = [call EXCEPT !.pc = "query"]
                /\ UNCHANGED <<si_last, si_first>>
    /\ UNCHANGED <<si_cache, si_source, si_fills, si_write>>

\* get_server_info_by_name: the next of get_deadline_pools, _groups,
\* _limit_groups, _workers; reply is the farm's answer.  A connection error
\* ends the call with DeadlineWebserviceError.
GetServerInfoQuery(reply) ==
    /\ si_call.pc = "query"
    /\ LET call == si_call
           queries == Append(call.queries,
                             QueryOrder[Len(call.queries) + 1])
           info == GetDeadlineInfo(reply)
       IN  IF info.raised # "none"
           THEN /\ si_call' = SiNoCall
                /\ si_last' = [server |-> call.server,
                               outcome |-> "raised", result |-> <<>>,
                               queries |-> queries, stored |-> FALSE,
                               later |-> call.later]
           ELSE /\ si_call' =
                     [call EXCEPT
                        !.queries = queries,
                        !.values = Append(@, info.value),
                        !.pc = IF Len(queries) = Len(QueryOrder)
                               THEN "store" ELSE "query"]
                /\ UNCHANGED si_last
    /\ UNCHANGED <<si_cache, si_first, si_source, si_fills, si_calls,
                   si_write>>

\* get_server_info_by_name: server_info = DeadlineServerInfo(...),
\* self._server_info_by_name[server_name] = server_info, return server_info
GetServerInfoStore ==
    /\ si_call.pc = "store"
    /\ LET call == si_call
           server_info == DeadlineServerInfo(call.values)
           cache == [si_cache EXCEPT ![call.server] = <<server_info>>]
       IN  /\ si_cache' = cache
           /\ si_source' = [si_source EXCEPT ![call.server] =
                              <<[queries |-> call.queries,
                                 values |-> call.values]>>]
           /\ si_write' = [server |-> call.server,
                           changed |-> {t \in ServerNames :
                                           cache[t] # si_cache[t]}]
           /\ SiCountFill(call.server)
           /\ SiReturn(call, server_info, TRUE)
    /\ UNCHANGED si_calls

SiIdle ==
    /\ si_cache = <<>>
    /\ si_first = <<>>
    /\ si_source = <<>>
    /\ si_fills = <<>>
    /\ si_call = <<>>
    /\ si_calls = 0
    /\ si_last = <<>>
    /\ si_write = <<>>

---------------------------------------------------------------------------
(* The specifications.                                                     *)

InitTiles == FtInit /\ SpIdle /\ TrIdle /\ IvIdle /\ KvIdle /\ JiIdle /\ ChIdle /\ EcIdle /\ SiIdle
NextTiles == FormatTilesCall /\ UNCHANGED <<spVars, trVars, ivVars, kvVars, jiVars, chVars, ecVars, siVars>>
SpecTiles == InitTiles /\ [][NextTiles]_vars

InitSplit == SpInit /\ FtIdle /\ TrIdle /\ IvIdle /\ KvIdle /\ JiIdle /\ ChIdle /\ EcIdle /\ SiIdle
NextSplit ==
    \/ ValidateJobInfo /\ UNCHANGED <<ftVars, trVars, ivVars, kvVars, jiVars, chVars, ecVars, siVars>>
    \/ ProcessPrepare /\ UNCHANGED <<ftVars, trVars, ivVars, kvVars, jiVars, chVars, ecVars, siVars>>
    \/ ProcessSubmission /\ UNCHANGED <<ftVars, trVars, ivVars, kvVars, jiVars, chVars, ecVars, siVars>>
    \/ ProcessSplitRender /\ UNCHANGED <<ftVars, trVars, ivVars, kvVars, jiVars, chVars, ecVars, siVars>>
SpecSplit == InitSplit /\ [][NextSplit]_vars

InitTileRender == TrInit /\ FtIdle /\ SpIdle /\ IvIdle /\ KvIdle /\ JiIdle /\ ChIdle /\ EcIdle /\ SiIdle
NextTileRender ==
    \/ TileRenderPrepare /\ UNCHANGED <<ftVars, spVars, ivVars, kvVars, jiVars, chVars, ecVars, siVars>>
    \/ TileRenderFrame /\ UNCHANGED <<ftVars, spVars, ivVars, kvVars, jiVars, chVars, ecVars, siVars>>
SpecTileRender == InitTileRender /\ [][NextTileRender]_vars

InitIndexed == IvInit /\ FtIdle /\ SpIdle /\ TrIdle /\ KvIdle /\ JiIdle /\ ChIdle /\ EcIdle /\ SiIdle
NextIndexed ==
    \/ IvOpSetItem /\ UNCHANGED <<ftVars, spVars, trVars, kvVars, jiVars, chVars, ecVars, siVars>>
    \/ IvOpAppend /\ UNCHANGED <<ftVars, spVars, trVars, kvVars, jiVars, chVars, ecVars, siVars>>
    \/ IvOpIAdd /\ UNCHANGED <<ftVars, spVars, trVars, kvVars, jiVars, chVars, ecVars, siVars>>
    \/ IvOpAdd /\ UNCHANGED <<ftVars, spVars, trVars, kvVars, jiVars, chVars, ecVars, siVars>>
    \/ IvOpExtend /\ UNCHANGED <<ftVars, spVars, trVars, kvVars, jiVars, chVars, ecVars, siVars>>
    \/ IvOpUpdate /\ UNCHANGED <<ftVars, spVars, trVars, kvVars, jiVars, chVars, ecVars, siVars>>
SpecIndexed == InitIndexed /\ [][NextIndexed]_vars

InitKeyValue == KvInit /\ FtIdle /\ SpIdle /\ TrIdle /\ IvIdle /\ JiIdle /\ ChIdle /\ EcIdle /\ SiIdle
NextKeyValue ==
    \/ KvOpSetItem /\ UNCHANGED <<ftVars, spVars, trVars, ivVars, jiVars, chVars, ecVars, siVars>>
    \/ KvOpSerialize /\ UNCHANGED <<ftVars, spVars, trVars, ivVars, jiVars, chVars, ecVars, siVars>>
SpecKeyValue == InitKeyValue /\ [][NextKeyValue]_vars

InitJobInfo == JiInit /\ FtIdle /\ SpIdle /\ TrIdle /\ IvIdle /\ KvIdle /\ ChIdle /\ EcIdle /\ SiIdle
NextJobInfo ==
    \/ JiAssignList /\ UNCHANGED <<ftVars, spVars, trVars, ivVars, kvVars, chVars, ecVars, siVars>>
    \/ JiAssignIndexed /\ UNCHANGED <<ftVars, spVars, trVars, ivVars, kvVars, chVars, ecVars, siVars>>
    \/ JiAssignKeyValue /\ UNCHANGED <<ftVars, spVars, trVars, ivVars, kvVars, chVars, ecVars, siVars>>
    \/ JiHandleMachineList /\ UNCHANGED <<ftVars, spVars, trVars, ivVars, kvVars, chVars, ecVars, siVars>>
    \/ JiHandleAdditionalJobinfo
        /\ UNCHANGED <<ftVars, spVars, trVars, ivVars, kvVars, chVars, ecVars, siVars>>
    \/ JiAddInstanceJobEnvVars
        /\ UNCHANGED <<ftVars, spVars, trVars, ivVars, kvVars, chVars, ecVars, siVars>>
    \/ JiAddRenderJobEnvVar
        /\ UNCHANGED <<ftVars, spVars, trVars, ivVars, kvVars, chVars, ecVars, siVars>>
SpecJobInfo == InitJobInfo /\ [][NextJobInfo]_vars

InitChain ==
    ChInit /\ FtIdle /\ SpIdle /\ TrIdle /\ IvIdle /\ KvIdle /\ JiIdle /\ EcIdle /\ SiIdle
NextChain ==
    \/ NukeRender /\ UNCHANGED <<ftVars, spVars, trVars, ivVars, kvVars, jiVars, ecVars, siVars>>
    \/ NukeBake /\ UNCHANGED <<ftVars, spVars, trVars, ivVars, kvVars, jiVars, ecVars, siVars>>
    \/ MaxSubmit /\ UNCHANGED <<ftVars, spVars, trVars, ivVars, kvVars, jiVars, ecVars, siVars>>
    \/ HoudiniSubmit /\ UNCHANGED <<ftVars, spVars, trVars, ivVars, kvVars, jiVars, ecVars, siVars>>
    \/ HoudiniSplitRender /\ UNCHANGED <<ftVars, spVars, trVars, ivVars, kvVars, jiVars, ecVars, siVars>>
    \/ MayaExport /\ UNCHANGED <<ftVars, spVars, trVars, ivVars, kvVars, jiVars, ecVars, siVars>>
    \/ MayaRender /\ UNCHANGED <<ftVars, spVars, trVars, ivVars, kvVars, jiVars, ecVars, siVars>>
    \/ PublishJob /\ UNCHANGED <<ftVars, spVars, trVars, ivVars, kvVars, jiVars, ecVars, siVars>>
SpecChain == InitChain /\ [][NextChain]_vars

InitEnvCache ==
    EcInit /\ FtIdle /\ SpIdle /\ TrIdle /\ IvIdle /\ KvIdle /\ JiIdle /\ ChIdle /\ SiIdle
EcOthersUnchanged == UNCHANGED <<ftVars, spVars, trVars, ivVars, kvVars, jiVars, chVars, siVars>>
NextEnvCache ==
    \/ (\E w \in Workers : EcWaitCheck(w)) /\ EcOthersUnchanged
    \/ (\E w \in Workers : EcWaitMtime(w)) /\ EcOthersUnchanged
    \/ (\E w \in Workers : EcRemoveStale(w)) /\ EcOthersUnchanged
    \/ (\E w \in Workers : EcCheckExport(w)) /\ EcOthersUnchanged
    \/ (\E w \in Workers : EcCreateTmp(w)) /\ EcOthersUnchanged
    \/ (\E w \in Workers : EcExtractRaise(w)) /\ EcOthersUnchanged
    \/ (\E w \in Workers : EcExtractWrite(w)) /\ EcOthersUnchanged
    \/ (\E w \in Workers : EcExtractFail(w)) /\ EcOthersUnchanged
    \/ (\E w \in Workers : EcExtractFinish(w)) /\ EcOthersUnchanged
    \/ (\E w \in Workers : EcRenameCheckExport(w)) /\ EcOthersUnchanged
    \/ (\E w \in Workers : EcRenameCheckTmp(w)) /\ EcOthersUnchanged
    \/ (\E w \in Workers : EcRename(w)) /\ EcOthersUnchanged
    \/ (\E w \in Workers : EcFinallyCheck(w)) /\ EcOthersUnchanged
    \/ (\E w \in Workers : EcFinallyRemove(w)) /\ EcOthersUnchanged
    \/ (\E w \in Workers : EcLoad(w)) /\ EcOthersUnchanged
    \/ EcTimeout /\ EcOthersUnchanged
SpecEnvCache == InitEnvCache /\ [][NextEnvCache]_vars

InitServerInfo ==
    SiInit /\ FtIdle /\ SpIdle /\ TrIdle /\ IvIdle /\ KvIdle /\ JiIdle /\ ChIdle /\ EcIdle
SiOthersUnchanged == UNCHANGED <<ftVars, spVars, trVars, ivVars, kvVars, jiVars, chVars, ecVars>>
NextServerInfo ==
    \/ (\E server_name \in ServerNames : GetServerInfoLookup(server_name))
        /\ SiOthersUnchanged
    \/ (\E reply \in FarmReplies : GetServerInfoQuery(reply))
        /\ SiOthersUnchanged
    \/ GetServerInfoStore /\ SiOthersUnchanged
SpecServerInfo == InitServerInfo /\ [][NextServerInfo]_vars

---------------------------------------------------------------------------
(* Properties of the split submission (checked under SpecSplit).           *)

SpElems(list) == {list[k] : k \in 1..Len(list)}

\* The first POST of process() is the export (or only) job; any later one
\* is the render job of the split.
SpRenderPosts == {k \in 1..Len(sp_posted) : k > 1}

\* C4: in a split export/render submission the render job is POSTed only
\* after the export job's submission returned a job id, the JobDependencies
\* of the POSTed render job contain that id, and after a failed export
\* submission no render job is POSTed.
C4_SplitChain ==
    /\ \A k \in SpRenderPosts :
        /\ sp_in.splitRender
        /\ sp_posted[1].answer = "ok"
        /\ sp_job_id = <<sp_posted[1].id>>
        /\ sp_posted[1].id \in SpElems(sp_posted[k].deps)
        /\ sp_posted[k].JobInfo["JobDependencies"] = JoinComma(sp_posted[k].deps)
    /\ (Len(sp_posted) >= 1 /\ sp_posted[1].answer # "ok") =>
        /\ Len(sp_posted) = 1
        /\ sp_pc = "raised"
        /\ sp_job_id = <<>>

\* C4 witness: an export job acknowledged with an id, then the render job
\* POSTed, for an instance whose collected job info already held a
\* dependency.
C4_Witness ==
    /\ sp_pc = "done"
    /\ Len(sp_posted) = 2
    /\ sp_in.JobDependencies = <<"dep0">>
    /\ sp_posted[1].JobInfo["Plugin"] = "Houdini"
    /\ sp_posted[2].JobInfo["Plugin"] = "Karma"
    /\ sp_posted[2].JobInfo["JobDependencies"] = "job1"

\* The farm's answer to the POST made by the step, if the step made one.
SpSubmitted == Len(sp_posted') = Len(sp_posted) + 1
SpAnswer == sp_posted'[Len(sp_posted')].answer

\* C14 (as claimed): submit returns a job id only for a 2xx answer with a
\* parseable body holding the id; a transport failure or timeout, a 2xx
\* answer with an unparseable body and a non-2xx answer each end in their
\* own error, the last carrying the response body; and on every failure no
\* job id is recorded and instance.data["deadlineSubmissionJob"] keeps the
\* value it had before the call.
C14_SubmitContract ==
    [][SpSubmitted =>
        /\ (sp_error' = "none") <=> (SpAnswer = "ok")
        /\ (SpAnswer = "exception") => (sp_error' = "RequestException")
        /\ (SpAnswer = "bad_json") =>
              (sp_error' = "KnownPublishError(Broken response from DL)")
        /\ (SpAnswer = "not_ok") =>
              (sp_error' = "KnownPublishError(response.text)")
        /\ (sp_error' # "none") =>
              /\ sp_job_id' = sp_job_id
              /\ sp_data'.deadlineSubmissionJob = sp_data.deadlineSubmissionJob
    ]_vars

\* C15 (as claimed): no job whose Priority lies outside [0,100] is ever
\* POSTed; a Priority outside the range raises a validation error before
\* any network call is made.  (Stated for instances whose validation is
\* switched on.)
C15_PostedPriorityInRange ==
    sp_in.validate_active =>
        /\ \A k \in 1..Len(sp_posted) :
             "Priority" \in DOMAIN sp_posted[k].JobInfo =>
                /\ sp_posted[k].JobInfo["Priority"] >= 0
                /\ sp_posted[k].JobInfo["Priority"] <= 100
        /\ (sp_pc = "invalid") => (sp_posted = <<>>)

---------------------------------------------------------------------------
(* Properties of _tile_render (checked under SpecTileRender).              *)

TrEnded == tr_pc \in {"returned", "raised"}
TrAllAnswersOk == \A k \in 1..Len(tr_posted) : tr_posted[k].answer = "ok"
TrTilePosts == {k \in 1..Len(tr_posted) : tr_posted[k].kind = "tile"}
TrAssemblyPosts == {k \in 1..Len(tr_posted) : tr_posted[k].kind = "assembly"}
TrFrames == {tr_files[k].frame : k \in 1..Len(tr_files)}

\* C11 (as claimed): with tile rendering enabled and every farm submission
\* answered with an id, _tile_render completes and has submitted exactly one
\* tile job per output frame, each with TileJob=true, TileJobTilesInX/Y the
\* instance's tile counts and the Region* fields of all tilesX*tilesY tiles.
C11_TileJobPerFrame ==
    (TrEnded /\ TrAllAnswersOk) =>
        /\ tr_pc = "returned"
        /\ tr_error = "none"
        /\ Cardinality(TrTilePosts) = Len(tr_files)
        /\ \A f \in TrFrames :
             \E k \in TrTilePosts :
                /\ tr_posted[k].JobInfo["TileJobFrame"] = f
                /\ tr_posted[k].JobInfo["TileJob"] = TRUE
                /\ tr_posted[k].JobInfo["TileJobTilesInX"] = tr_in.tilesX
                /\ tr_posted[k].JobInfo["TileJobTilesInY"] = tr_in.tilesY
                /\ \A i \in 0..(tiles_count(tr_in.tilesX, tr_in.tilesY) - 1) :
                     {Key("RegionTop", i), Key("RegionBottom", i),
                      Key("RegionLeft", i), Key("RegionRight", i),
                      Key("RegionPrefix", i)}
                         \subseteq DOMAIN tr_posted[k].PluginInfo

\* C12 (as claimed): for each output frame of a tile batch exactly one
\* assembly job is built and submitted, for a flat file list and for
\* several AOV sequences alike, and its Frames field is that frame.
C12_AssemblyJobPerFrame ==
    (TrEnded /\ TrAllAnswersOk) =>
        /\ Cardinality(TrAssemblyPosts) = Cardinality(TrFrames)
        /\ \A f \in TrFrames :
             Cardinality({k \in TrAssemblyPosts :
                             tr_posted[k].JobInfo["Frames"] = f}) = 1

---------------------------------------------------------------------------
(* Properties of DeadlineIndexedVar (checked under SpecIndexed).           *)

\* The lowest non-negative integer that is not a key of d.
IvLowestUnused(d) ==
    CHOOSE i \in 0..Cardinality(DOMAIN d) :
        /\ IvKey(i) \notin DOMAIN d
        /\ \A j \in 0..(i - 1) : IvKey(j) \in DOMAIN d

\* C19: after any sequence of indexed assignments, append, +=, extend, add
\* and update every key is a non-negative integer, and each append (or +=)
\* stores the new value at the lowest non-negative integer that is not yet a
\* key and leaves every existing entry as it was.
C19_IndexedKeys ==
    /\ \A k \in DOMAIN iv : k.int /\ k.v >= 0
    /\ iv_last.op \in {"append", "iadd"} =>
        /\ iv_last.raised = "none"
        /\ DOMAIN iv = DOMAIN iv_last.before
                          \cup {IvKey(IvLowestUnused(iv_last.before))}
        /\ IvKey(IvLowestUnused(iv_last.before)) \notin DOMAIN iv_last.before
        /\ iv[IvKey(IvLowestUnused(iv_last.before))] = iv_last.value
        /\ \A k \in DOMAIN iv_last.before : iv[k] = iv_last.before[k]

\* C19 witness: the keys {0, 2} followed by an append give the new key 1.
C19_Witness ==
    /\ iv_last.op = "append"
    /\ DOMAIN iv_last.before = {IvKey(0), IvKey(2)}
    /\ DOMAIN iv = {IvKey(0), IvKey(1), IvKey(2)}
    /\ iv[IvKey(1)] = iv_last.value

---------------------------------------------------------------------------
(* Properties of DeadlineKeyValueVar (checked under SpecKeyValue).         *)

\* The number of keys of items that sort before key.
KvRank(items, key) ==
    Cardinality({j \in 1..Len(items) : StrLess(items[j].key, key)})

\* Every order in which the same items could have been inserted.
KvReorderings(items) ==
    {[i \in 1..Len(items) |-> items[p[i]]] :
        p \in {f \in [1..Len(items) -> 1..Len(items)] :
                 \A a, b \in 1..Len(items) : f[a] = f[b] => a = b}}

\* C20: serializing a keyed collection of n entries gives exactly the keys
\* Name0 .. Name{n-1}; Name{i} holds "key=value" of the i-th entry in
\* ascending order of key (the order of Python strings: character by
\* character, so "B" < "a" < "ab" < "b"); the result is the same for
\* every order of insertion or overwriting that ends in the same contents.
C20_SerializeSorted ==
    (kv_out # <<>>) =>
        /\ DOMAIN kv_out[1] = {KvName(i) : i \in 0..(Len(kv) - 1)}
        /\ \A j \in 1..Len(kv) :
             kv_out[1][KvName(KvRank(kv, kv[j].key))]
                 = KvStr(kv[j].key) \o "=" \o kv[j].value
        /\ \A q \in KvReorderings(kv) : KvSerialize(q) = kv_out[1]

\* C20 witness: "b" was set before "a"; the entry of "a" is serialized
\* first.
C20_Witness ==
    /\ kv = <<[key |-> <<98>>, value |-> "1"], [key |-> <<97>>, value |-> "2"]>>
    /\ kv_out # <<>>
    /\ kv_out[1]["EnvironmentKeyValue0"] = "a=2"
    /\ kv_out[1]["EnvironmentKeyValue1"] = "b=1"

---------------------------------------------------------------------------
(* Properties of DeadlineJobInfo (checked under SpecJobInfo).              *)

\* The tokens of a comma-separated string that are not empty, in order.
NonEmptyTokens(chars) == SelectSeq(SplitComma(chars), LAMBDA t : t # "")

JiLastIsAssign(fields, types) ==
    /\ ji_last.op = "setattr"
    /\ ji_last.key \in fields
    /\ ji_last.value.type \in types

\* C21: after a comma-separated string was assigned to a list field, the
\* field reads back as the ordered list of the string's non-empty tokens,
\* whatever the string (empty, or with leading, trailing or consecutive
\* commas).
C21_StringReadsBackAsTokens ==
    JiLastIsAssign(ListFields, {"str"}) =>
        ji[ji_last.key] = JiSome(NonEmptyTokens(ji_last.value.s))

\* C22: a list field holding an empty list is absent from the serialized
\* map, and one holding a non-empty list is emitted as its comma-joined
\* elements.
C22_EmptyListAbsent ==
    \A key \in ListFields :
        ~ji[key].none =>
            IF ji[key].v = <<>> THEN key \notin DOMAIN Serialize(ji)
            ELSE /\ key \in DOMAIN Serialize(ji)
                 /\ Serialize(ji)[key] = JoinComma(ji[key].v)

\* What serialization emits after the entries of a plain list or plain dict
\* were inserted one by one into the field's default (empty) container.
JiInsertedSerialized(key, value) ==
    IF key \in IndexedFields
    THEN LET default == JobInfoDefaults[key].v
         IN  IndexedSerialize([default EXCEPT !.d =
                 IF value.type = "list"
                 THEN IvExtend(IvOk(default.d), value.list).d
                 ELSE IvUpdate(IvOk(default.d), value.items).d])
    ELSE KvSerialize(KvUpdateFromDict(IvOk(<<>>), value.items).d)

\* The entries can be inserted into the default container at all.
JiInsertable(key, value) ==
    IF key \in IndexedFields
    THEN value.type = "list"
         \/ IvUpdate(IvOk(EmptyDict), value.items).raised = "none"
    ELSE value.type = "dict"

\* C23: assigning a plain list or plain dict to an indexed or key-value
\* field succeeds and the field then serializes to the wire keys and values
\* that inserting the same entries into the default container gives.
C23_PlainCollectionRewrapped ==
    (/\ JiLastIsAssign(IndexedFields \cup KeyValueFields, {"list", "dict"})
     /\ JiInsertable(ji_last.key, ji_last.value))
    => /\ ji_last.raised = "none"
       /\ FillSerializeValue(ji_last.key, ji[ji_last.key], EmptyDict)
            = JiInsertedSerialized(ji_last.key, ji_last.value)

JiNonEmpty(value) == ~value.none /\ Len(value.v) > 0

\* C24: whatever operations set the machine filters, at most one of
\* Whitelist and Blacklist is non-empty.
C24_MachineFiltersExclusive ==
    ~(JiNonEmpty(ji["Whitelist"]) /\ JiNonEmpty(ji["Blacklist"]))

---------------------------------------------------------------------------
(* Properties of the submission chains (checked under SpecChain).          *)

ChElems(seq) == {seq[i] : i \in 1..Len(seq)}

\* The dependency list a job was posted with (an unset field has none).
ChDeps(k) ==
    IF ch_posted[k].JobDependencies.none THEN <<>>
    ELSE ch_posted[k].JobDependencies.v

\* The ids the farm returned for the jobs it accepted before the k-th POST.
ChEarlierIds(k) ==
    {ch_posted[j].id : j \in {i \in 1..(k - 1) : ch_posted[i].answer = "ok"}}

ChNoDuplicates(seq) ==
    \A i, j \in 1..Len(seq) : seq[i] = seq[j] => i = j

\* C25: no posted job lists a dependency twice, and every id a job depends
\* on was returned by an earlier successful submission.
C25_DependenciesFromEarlierJobs ==
    \A k \in 1..Len(ch_posted) :
        /\ ChNoDuplicates(ChDeps(k))
        /\ ChElems(ChDeps(k)) \subseteq ChEarlierIds(k)

\* The last-stage jobs the farm accepted before the k-th POST: the baking
\* jobs if there are any, else every render job (one per camera).
ChLastStageIds(k) ==
    LET accepted(kinds) ==
            {ch_posted[j].id :
                j \in {i \in 1..(k - 1) : /\ ch_posted[i].answer = "ok"
                                          /\ ch_posted[i].kind \in kinds}}
    IN  IF accepted({"baking"}) # {} THEN accepted({"baking"})
        ELSE accepted({"render", "camera"})

\* C27: the publish job depends on every last-stage job submitted for the
\* instance.
C27_PublishWaitsForAllJobs ==
    \A k \in 1..Len(ch_posted) :
        ch_posted[k].kind = "publish" =>
            ChLastStageIds(k) \subseteq ChElems(ChDeps(k))

---------------------------------------------------------------------------
(* Properties of the environment cache (checked under SpecEnvCache).       *)

\* The workers whose extraction process is about to start or running.
EcExtracting ==
    {w \in Workers : \/ ec_pc[w] = "extract" /\ ec_all_kwargs
                     \/ ec_pc[w] = "writing"}

\* C28: unless a stale in-progress file was removed, at most one worker at
\* a time runs the environment extraction for the job's cache file.
C28_SingleExtraction ==
    ec_stale_removed \/ Cardinality(EcExtracting) <= 1

\* C29: a worker that loaded the cache file read the complete output of a
\* finished extraction: never an empty or partial file, and never one that
\* a process was still writing.
C29_LoadsCompleteFileOnly ==
    \A w \in Workers :
        ec_read[w] # <<>> =>
            /\ ec_read[w][1].content = "complete"
            /\ ~ec_read[w][1].being_written

---------------------------------------------------------------------------
(* Properties of the server info cache (checked under SpecServerInfo).     *)

\* The entry of server_name holds the four lists of one call in which every
\* query returned.
SiEntryComplete(server_name) ==
    /\ si_source[server_name] # <<>>
    /\ si_source[server_name][1].queries = QueryOrder
    /\ si_cache[server_name] =
           <<DeadlineServerInfo(si_source[server_name][1].values)>>

\* C30: the cache entry of a server name is filled at most once; a call of
\* get_server_info_by_name(s) made after a call for s has returned makes no
\* farm query and returns the lists that call returned; a call in which a
\* query fails with a connection error stores nothing; every entry the
\* cache holds consists of the four lists of one call in which all four
\* queries returned; a store changes no entry of another server name.
C30_ServerInfoFilledOnce ==
    /\ \A t \in ServerNames : si_fills[t] <= 1
    /\ \A t \in ServerNames : si_cache[t] # <<>> => SiEntryComplete(t)
    /\ si_write.changed \subseteq {si_write.server}
    /\ si_last.outcome = "raised" => ~si_last.stored
    /\ (si_last.outcome # "none" /\ si_last.later)
        => /\ si_last.outcome = "returned"
           /\ si_last.queries = <<>>
           /\ si_last.result = si_first[si_last.server]

\* C30 witness: a call for "default" made after an earlier call for it had
\* returned ended without a query and with the cached lists ("none" sorted
\* first, an empty list from a response that was not ok), the entry was
\* stored once, and "other" has no entry.
C30_Witness ==
    /\ si_last.outcome = "returned"
    /\ si_last.later
    /\ si_last.server = "default"
    /\ si_last.queries = <<>>
    /\ si_last.result = si_cache["default"]
    /\ si_cache["default"] =
           <<[pools |-> <<"none", "a">>, limit_groups |-> <<>>,
              groups |-> <<"none", "a">>, machines |-> <<"none", "a">>]>>
    /\ si_fills["default"] = 1
    /\ si_cache["other"] = <<>>

---------------------------------------------------------------------------
(* Properties of _format_tiles (checked under SpecTiles).                  *)

FtCalled(rev) == ft_ret[rev] # <<>>
FtPlugin(rev) == ft_ret[rev][1].out.PluginInfo
FtCfg(rev) == ft_ret[rev][1].cfg
FtCount == ft_args.tiles_x * ft_args.tiles_y
FtIndices == 0..(FtCount - 1)
FtWs == ft_args.width \div ft_args.tiles_x
FtHs == ft_args.height \div ft_args.tiles_y
FtImage == (0..(ft_args.width - 1)) \X (0..(ft_args.height - 1))

\* Pixel columns, rows and rectangle of the region fields with index i.
FtCols(pi, i) == pi[Key("RegionLeft", i)]..pi[Key("RegionRight", i)]
FtRows(pi, i) == pi[Key("RegionTop", i)]..pi[Key("RegionBottom", i)]
FtRect(pi, i) == FtCols(pi, i) \X FtRows(pi, i)

RECURSIVE FtSumArea(_, _)
FtSumArea(pi, n) ==
    IF n = 0 THEN 0 ELSE Cardinality(FtRect(pi, n - 1)) + FtSumArea(pi, n - 1)

\* The tile file name the code formats for grid position (x, y).
FtTileFile(x, y) ==
    new_filename(ft_args.filename,
                 tile_prefix(x, y, ft_args.tiles_x, ft_args.tiles_y))

\* C5: for all width, height >= 0 and tilesX, tilesY >= 1 the tile
\* rectangles are pairwise disjoint, their total area is
\* tilesX*tilesY*(width div tilesX)*(height div tilesY), every rectangle lies
\* inside the image, and the remainder pixels (the columns from
\* tilesX*tileWidth on, the rows above height - tilesY*tileHeight) belong to
\* no tile.
C5_TileCoverage ==
    \A rev \in BOOLEAN : FtCalled(rev) =>
        LET pi == FtPlugin(rev)
            covered == UNION {FtRect(pi, i) : i \in FtIndices}
        IN  /\ \A i, j \in FtIndices :
                   i # j => FtRect(pi, i) \cap FtRect(pi, j) = {}
            /\ FtSumArea(pi, FtCount) = FtCount * FtWs * FtHs
            /\ \A i \in FtIndices : FtRect(pi, i) \subseteq FtImage
            /\ \A px \in FtImage :
                   (\/ px[1] >= ft_args.tiles_x * FtWs
                    \/ px[2] < ft_args.height - ft_args.tiles_y * FtHs)
                   => px \notin covered
            /\ Cardinality(FtImage \ covered)
                   = ft_args.width * ft_args.height - FtCount * FtWs * FtHs

\* A 2x2 grid over a 5x5 image: tiles of 2x2 pixels, one remainder column
\* and one remainder row.
C5_Witness ==
    /\ FtCalled(FALSE)
    /\ ft_args.tiles_x = 2 /\ ft_args.tiles_y = 2
    /\ ft_args.width = 5 /\ ft_args.height = 5
    /\ Cardinality(FtRect(FtPlugin(FALSE), 3)) = 4

\* C6 (as claimed): for every tile i the manifest entry Tile{i}Y is
\* height - RegionTop{i} - tileHeight and Tile{i}X is RegionLeft{i}.
C6_ManifestYBottomLeft ==
    \A rev \in BOOLEAN : FtCalled(rev) =>
        \A i \in FtIndices :
            /\ FtCfg(rev)[TileKey(i, "Y")]
                   = ft_args.height - FtPlugin(rev)[Key("RegionTop", i)] - FtHs
            /\ FtCfg(rev)[TileKey(i, "X")] = FtPlugin(rev)[Key("RegionLeft", i)]

\* What the code writes instead: Tile{i}Y is RegionTop{i} itself.
C6_CodeWritesTop ==
    \A rev \in BOOLEAN : FtCalled(rev) =>
        \A i \in FtIndices :
            /\ FtCfg(rev)[TileKey(i, "Y")] = FtPlugin(rev)[Key("RegionTop", i)]
            /\ FtCfg(rev)[TileKey(i, "X")] = FtPlugin(rev)[Key("RegionLeft", i)]

FtTileFields == {"FileName", "X", "Y", "Width", "Height"}
FtRegionFields ==
    {"RegionPrefix", "RegionTop", "RegionBottom", "RegionLeft", "RegionRight"}

\* The tile blocks of a manifest: the indices i with a Tile{i}FileName line.
FtBlocks(cfg) == {i \in 0..(2 * FtCount) : TileKey(i, "FileName") \in DOMAIN cfg}

FtDivisible ==
    /\ ft_args.width % ft_args.tiles_x = 0
    /\ ft_args.height % ft_args.tiles_y = 0

FtManifestShape(cfg) ==
    /\ tiles_count(ft_args.tiles_x, ft_args.tiles_y) = FtCount
    /\ FtBlocks(cfg) = FtIndices
    /\ DOMAIN cfg = {"TilesCropped"}
           \cup {TileKey(i, f) : i \in FtIndices, f \in FtTileFields}
    /\ \A i \in FtIndices :
           /\ cfg[TileKey(i, "Width")] * ft_args.tiles_x = ft_args.width
           /\ cfg[TileKey(i, "Height")] * ft_args.tiles_y = ft_args.height
    /\ {<<cfg[TileKey(i, "X")], cfg[TileKey(i, "Y")]>> : i \in FtIndices}
           = {<<a * FtWs, b * FtHs>> : a \in 0..(ft_args.tiles_x - 1),
                                       b \in 0..(ft_args.tiles_y - 1)}

FtNoPairRepeated(cfg) ==
    \A i, j \in FtIndices :
        (/\ cfg[TileKey(i, "X")] = cfg[TileKey(j, "X")]
         /\ cfg[TileKey(i, "Y")] = cfg[TileKey(j, "Y")]) => i = j

\* C7 (as claimed): for width divisible by tilesX and height divisible by
\* tilesY the manifest declares TileCount = tilesX*tilesY, holds exactly the
\* blocks Tile0 .. Tile{tilesX*tilesY-1}, each of Width width/tilesX and
\* Height height/tilesY, and its (X, Y) pairs are exactly the grid
\* {(a*Width, b*Height)} with no pair repeated.
C7_ManifestGridAnySize ==
    \A rev \in BOOLEAN : (FtCalled(rev) /\ FtDivisible) =>
        FtManifestShape(FtCfg(rev)) /\ FtNoPairRepeated(FtCfg(rev))

\* C7 (amended): the same, for width a positive multiple of tilesX and
\* height a positive multiple of tilesY.
C7_ManifestGrid ==
    \A rev \in BOOLEAN :
        (FtCalled(rev) /\ FtDivisible
            /\ ft_args.width > 0 /\ ft_args.height > 0) =>
        FtManifestShape(FtCfg(rev)) /\ FtNoPairRepeated(FtCfg(rev))

\* The example of the specification: a 4x4 image in 2x2 tiles gives four
\* blocks of 2x2 pixels at (0,0), (2,0), (0,2), (2,2).
C7_Witness ==
    /\ FtCalled(FALSE)
    /\ ft_args.tiles_x = 2 /\ ft_args.tiles_y = 2
    /\ ft_args.width = 4 /\ ft_args.height = 4
    /\ {<<FtCfg(FALSE)[TileKey(i, "X")], FtCfg(FALSE)[TileKey(i, "Y")]>> :
            i \in 0..3} = {<<0, 0>>, <<2, 0>>, <<0, 2>>, <<2, 2>>}

\* The index at which a call's manifest lists the tile file of grid
\* position (x, y).
FtIndexOfFile(cfg, x, y) ==
    CHOOSE i \in FtIndices : cfg[TileKey(i, "FileName")] = FtTileFile(x, y)

FtHasFile(cfg, x, y) ==
    \E i \in FtIndices : cfg[TileKey(i, "FileName")] = FtTileFile(x, y)

\* C8: the pixel rows that _format_tiles(reversed_y=True) associates with
\* the tile file named tileY = k are the rows that reversed_y=False
\* associates with the file named tileY = tilesY + 1 - k (k = 1 gets the
\* rows of tilesY); the columns of a named file are the same in both.
C8_MirrorSymmetry ==
    (FtCalled(TRUE) /\ FtCalled(FALSE)) =>
        \A x \in 1..ft_args.tiles_x, k \in 1..ft_args.tiles_y :
            /\ FtHasFile(FtCfg(TRUE), x, k)
            /\ FtHasFile(FtCfg(FALSE), x, k)
            /\ LET m == FtIndexOfFile(FtCfg(TRUE), x, k)
                   u == FtIndexOfFile(FtCfg(FALSE), x, ft_args.tiles_y + 1 - k)
                   c == FtIndexOfFile(FtCfg(FALSE), x, k)
               IN  /\ FtRows(FtPlugin(TRUE), m) = FtRows(FtPlugin(FALSE), u)
                   /\ FtCols(FtPlugin(TRUE), m) = FtCols(FtPlugin(FALSE), c)

\* Three rows of two pixels each: mirrored, the file named tileY = 1 holds
\* rows 0..1, which unmirrored belong to the file named tileY = 3.
C8_Witness ==
    /\ FtCalled(TRUE) /\ FtCalled(FALSE)
    /\ ft_args.tiles_y = 3 /\ ft_args.height = 6 /\ ft_args.tiles_x = 2
    /\ FtRows(FtPlugin(TRUE), FtIndexOfFile(FtCfg(TRUE), 1, 1)) = 0..1
    /\ FtRows(FtPlugin(FALSE), FtIndexOfFile(FtCfg(FALSE), 1, 3)) = 0..1

\* All tile infixes of the grid.
FtInfixes ==
    {tile_prefix(x, y, ft_args.tiles_x, ft_args.tiles_y) :
        x \in 1..ft_args.tiles_x, y \in 1..ft_args.tiles_y}

\* value is the image prefix with infix p inserted in front of one of its
\* path components.
FtCarriesInfix(value, p) ==
    \E k \in 0..(Len(ft_args.prefix) - 1) :
        value = (IF k = 0 THEN ""
                 ELSE JoinSlash(SubSeq(ft_args.prefix, 1, k)) \o "/")
                \o p
                \o JoinSlash(SubSeq(ft_args.prefix, k + 1, Len(ft_args.prefix)))

\* The tile stage calls _format_tiles without mirroring, the assembly stage
\* calls it with reversed_y set for arnold.
FtJobCalled == FtCalled(FALSE)
FtManifestCalled == FtCalled(ManifestReversedY(ft_renderer))
FtJobPlugin == FtPlugin(FALSE)
FtManifestCfg == FtCfg(ManifestReversedY(ft_renderer))

\* The manifest block i and the region fields i describe the same pixels.
FtSameRegion(i) ==
    /\ FtManifestCfg[TileKey(i, "X")] = FtJobPlugin[Key("RegionLeft", i)]
    /\ FtManifestCfg[TileKey(i, "X")] + FtManifestCfg[TileKey(i, "Width")] - 1
           = FtJobPlugin[Key("RegionRight", i)]
    /\ FtManifestCfg[TileKey(i, "Y")] = FtJobPlugin[Key("RegionTop", i)]
    /\ FtManifestCfg[TileKey(i, "Y")] + FtManifestCfg[TileKey(i, "Height")] - 1
           = FtJobPlugin[Key("RegionBottom", i)]

\* C9: for every renderer and every tile index i,
\* Tile{i}FileName of the manifest and RegionPrefix{i} of the tile job carry
\* the same _tile_ infix, and block i covers the pixels of Region*{i}.
C9_ManifestFileIsRegionFile ==
    (FtJobCalled /\ FtManifestCalled) =>
        \A i \in FtIndices :
            /\ \E p \in FtInfixes :
                   /\ FtManifestCfg[TileKey(i, "FileName")]
                          = new_filename(ft_args.filename, p)
                   /\ FtCarriesInfix(FtJobPlugin[Key("RegionPrefix", i)], p)
            /\ FtSameRegion(i)

\* C10: the index assigned while iterating tileX (outer) and tileY (inner)
\* is (tileX-1)*tilesY + (tileY-1), a bijection from the pairs onto
\* 0 .. tilesX*tilesY-1, and the Region*{i} and Tile{i}* keys exist for
\* exactly these indices.
C10_IndexBijection ==
    \A rev \in BOOLEAN : FtCalled(rev) =>
        /\ DOMAIN FtPlugin(rev)
               = {Key(f, i) : f \in FtRegionFields, i \in FtIndices}
        /\ DOMAIN FtCfg(rev) \ {"TilesCropped"}
               = {TileKey(i, f) : i \in FtIndices, f \in FtTileFields}
        /\ \A x \in 1..ft_args.tiles_x, y \in 1..ft_args.tiles_y :
               LET i == (x - 1) * ft_args.tiles_y + (y - 1)
               IN  /\ i \in FtIndices
                   /\ FtPlugin(rev)[Key("RegionLeft", i)] = (x - 1) * FtWs
                   /\ FtPlugin(rev)[Key("RegionTop", i)]
                          = ft_args.height - y * FtHs
                   /\ FtCfg(rev)[TileKey(i, "FileName")]
                          = FtTileFile(x, IF rev THEN ft_args.tiles_y + 1 - y
                                          ELSE y)
        /\ \A i \in FtIndices :
               Cardinality({xy \in (1..ft_args.tiles_x) \X (1..ft_args.tiles_y) :
                   FtCfg(rev)[TileKey(i, "FileName")]
                       = FtTileFile(xy[1], IF rev
                                           THEN ft_args.tiles_y + 1 - xy[2]
                                           ELSE xy[2])}) = 1

\* A 3x2 grid: the pair (tileX, tileY) = (3, 1) has index 4.
C10_Witness ==
    /\ FtCalled(FALSE)
    /\ ft_args.tiles_x = 3 /\ ft_args.tiles_y = 2
    /\ FtCfg(FALSE)[TileKey(4, "FileName")] = FtTileFile(3, 1)
    /\ Cardinality(DOMAIN FtPlugin(FALSE)) = 30

====
